---- MODULE Spec2Model ----
(***************************************************************************)
(* Crumbwise task board (src/crumbwise.py): the task lifecycle engine, the *)
(* markdown store and the HTTP handlers that mutate it.                    *)
(*                                                                         *)
(* Timestamps are clock ticks (now_iso() is a read of the clock `now`);    *)
(* TicksPerDay ticks make one calendar day, day 0 being EpochDate.  A      *)
(* Python None / absent metadata key is the value None.  A history string  *)
(* "ip@t1|bl@t2" is the sequence of its entries.                           *)
(***************************************************************************)
EXTENDS Integers, Sequences, FiniteSets, TLC

VARIABLES
    TASKS_FILE,   \* data/tasks.md: section header -> sequence of task lines
    UNDO_FILE,    \* data/tasks.md.undo: [exists, content]
    now,          \* the wall clock, in ticks
    nextId,       \* number of uuid4 ids handed out so far
    requests,     \* number of mutating requests served so far
    budget,       \* how far this run is followed: [tasks, requests]
    preBlock,     \* per task: in_progress before its latest active -> BLOCKED move
    stage,        \* per task: how far it is along to-do, active, blocked, active, done
    inflight,     \* per server thread: the request it is serving between read and write
    response      \* the body of the latest answer to a timeline read

vars ==
    <<TASKS_FILE, UNDO_FILE, now, nextId, requests, budget, preBlock, stage,
      inflight, response>>

\* ------------------------------------------------------------------ bounds
MaxTasks == 2
MaxTime == 2
MaxRequests == 5
MaxAssigned == 3
MaxOrderRequests == 3
MaxVaried == 3
MaxColorRequests == 2
DaysBack == 20
DaysAhead == 20
MaxEvents == 4
MaxAround == 2

\* A board of MaxTasks tasks is followed for four requests, and a single
\* task through a longer life of MaxRequests requests.
Budgets ==
    { [tasks |-> MaxTasks, requests |-> 4],
      [tasks |-> 1, requests |-> MaxRequests] }

\* --------------------------------------------------------------- constants
None == -1
NoText == "<none>"
NoSection == ""
NotBlocked == -2
NoResponse == [kind |-> "none", tasks |-> <<>>]
TicksPerDay == 2
StartTime == 1
NumColors == 16
Sentinel == 9999

SECTIONS ==
    { "TODO FOLLOWING WEEK", "TODO NEXT WEEK", "TODO THIS WEEK",
      "IN PROGRESS TODAY", "DONE THIS WEEK", "PROJECTS", "FOLLOW UPS",
      "BLOCKED", "PROBLEMS TO SOLVE", "THINGS TO RESEARCH",
      "RESEARCH IN PROGRESS", "RESEARCH DONE", "BACKLOG HIGH PRIORITY",
      "BACKLOG MEDIUM PRIORITY", "BACKLOG LOW PRIORITY",
      "COMPLETED PROJECTS", "DONE 2025" }

PROJECT_SECTIONS == {"PROJECTS", "COMPLETED PROJECTS"}
IN_PROGRESS_SECTIONS == {"IN PROGRESS TODAY"}
CLEARS_IN_PROGRESS_SECTIONS ==
    { "TODO THIS WEEK", "TODO NEXT WEEK", "TODO FOLLOWING WEEK",
      "BACKLOG HIGH PRIORITY", "BACKLOG MEDIUM PRIORITY",
      "BACKLOG LOW PRIORITY" }
BLOCKED_SECTIONS == {"BLOCKED"}
DONE_SECTIONS == {"DONE THIS WEEK"}
RESEARCH_SECTIONS ==
    { "PROBLEMS TO SOLVE", "THINGS TO RESEARCH", "RESEARCH IN PROGRESS",
      "RESEARCH DONE" }

\* ----------------------------------------------------------------- inputs
Texts == {" a"}
RequestSections ==
    { "TODO NEXT WEEK", "IN PROGRESS TODAY", "DONE THIS WEEK", "BLOCKED",
      "THINGS TO RESEARCH", "PROJECTS" }
\* yearly and quarterly done sections a PUT may name
ArchiveSections == {"DONE 2025", "DONE Q1 2026", "DONE Q2 2026"}
\* a section without lifecycle role that is neither project nor research
OtherSections == {"FOLLOW UPS"}
\* the sections a PUT may name
PutSections == RequestSections \cup ArchiveSections \cup OtherSections
\* PUT bodies: a new text, a new section, or neither
UpdateInputs ==
    {<<"b ", NoSection>>, <<NoText, NoSection>>}
        \cup {<<NoText, s>> : s \in PutSections}
Ids == 1..MaxTasks
\* a section name that is no header of the board and no quarterly archive
InvalidSections == {"SOMEDAY"}
\* PUT bodies that name it, with and without a new text
InvalidUpdateInputs == {<<"b ", s>> : s \in InvalidSections} \cup {<<NoText, s>> : s \in InvalidSections}
\* color_index values of a set-color request: absent, a color, beyond the palette
ColorIndexes == {0, 2, 17}
\* POST bodies add_task answers 400 to: an unknown section, a blank text
AddRejectInputs == {<<s, " a">> : s \in InvalidSections} \cup {<<"TODO NEXT WEEK", " ">>}
\* PUT bodies sent to a task that may not exist
RejectUpdateInputs == InvalidUpdateInputs \cup {<<"b ", NoSection>>}
\* target sections of a reorder that may be rejected
RejectReorderSections == InvalidSections \cup {"TODO NEXT WEEK"}

\* ------------------------------------------------------- python primitives
startswith(s, p) == Len(s) >= Len(p) /\ SubSeq(s, 1, Len(p)) = p

Lowercase == "abcdefghijklmnopqrstuvwxyz"
Uppercase == "ABCDEFGHIJKLMNOPQRSTUVWXYZ"
Digits == "0123456789"

\* the 1-based place of the one-character string c in s, or 0
RECURSIVE index_in(_, _)
index_in(s, c) ==
    IF Len(s) = 0 THEN 0
    ELSE IF SubSeq(s, Len(s), Len(s)) = c /\ index_in(SubSeq(s, 1, Len(s) - 1), c) = 0
         THEN Len(s)
    ELSE index_in(SubSeq(s, 1, Len(s) - 1), c)

RECURSIVE upper(_)
upper(s) ==
    IF Len(s) = 0 THEN ""
    ELSE LET c == SubSeq(s, 1, 1)
             k == index_in(Lowercase, c)
         IN (IF k = 0 THEN c ELSE SubSeq(Uppercase, k, k)) \o upper(SubSeq(s, 2, Len(s)))

\* str.split(): the words between runs of blanks
RECURSIVE split_from(_, _)
split_from(s, word) ==
    IF Len(s) = 0 THEN (IF word = "" THEN <<>> ELSE <<word>>)
    ELSE IF SubSeq(s, 1, 1) = " "
         THEN (IF word = "" THEN <<>> ELSE <<word>>) \o split_from(SubSeq(s, 2, Len(s)), "")
    ELSE split_from(SubSeq(s, 2, Len(s)), word \o SubSeq(s, 1, 1))

split(s) == split_from(s, "")

\* int(s) succeeds: s is a non-empty run of digits
RECURSIVE is_int(_)
is_int(s) ==
    /\ Len(s) > 0
    /\ index_in(Digits, SubSeq(s, Len(s), Len(s))) > 0
    /\ Len(s) = 1 \/ is_int(SubSeq(s, 1, Len(s) - 1))

RECURSIVE int(_)
int(s) ==
    IF Len(s) = 0 THEN 0
    ELSE 10 * int(SubSeq(s, 1, Len(s) - 1))
            + (index_in(Digits, SubSeq(s, Len(s), Len(s))) - 1)

\* tuple comparison: a < b
RECURSIVE tuple_less(_, _)
tuple_less(a, b) ==
    IF a = <<>> THEN b # <<>>
    ELSE IF b = <<>> THEN FALSE
    ELSE IF Head(a) # Head(b) THEN Head(a) < Head(b)
    ELSE tuple_less(Tail(a), Tail(b))

RECURSIVE lstrip(_)
lstrip(s) ==
    IF Len(s) > 0 /\ SubSeq(s, 1, 1) = " " THEN lstrip(SubSeq(s, 2, Len(s)))
    ELSE s

RECURSIVE rstrip(_)
rstrip(s) ==
    IF Len(s) > 0 /\ SubSeq(s, Len(s), Len(s)) = " "
    THEN rstrip(SubSeq(s, 1, Len(s) - 1))
    ELSE s

strip(s) == rstrip(lstrip(s))

list_remove_keeps(l, x) == l

\* list.remove(x): drops the first element equal to x
RECURSIVE list_remove(_, _)
list_remove(l, x) ==
    IF l = <<>> THEN <<>>
    ELSE IF Head(l) = x THEN Tail(l)
    ELSE <<Head(l)>> \o list_remove(Tail(l), x)

\* list.insert(i, x) for 0 <= i
list_insert(l, i, x) ==
    LET k == IF i > Len(l) THEN Len(l) ELSE i
    IN SubSeq(l, 1, k) \o <<x>> \o SubSeq(l, k + 1, Len(l))

\* an in-place mutation of the dict object t held in list l
list_update(l, t, u) == [i \in 1..Len(l) |-> IF l[i] = t THEN u ELSE l[i]]

Min(a, b) == IF a < b THEN a ELSE b
Max(a, b) == IF a > b THEN a ELSE b

\* ---------------------------------------------------------------- calendar
EpochDate == [year |-> 2026, month |-> 4, day |-> 2]
EpochWeekday == 3

is_leap(y) == (y % 4 = 0 /\ y % 100 # 0) \/ y % 400 = 0

days_in_month(y, m) ==
    IF m = 2 THEN (IF is_leap(y) THEN 29 ELSE 28)
    ELSE IF m \in {4, 6, 9, 11} THEN 30 ELSE 31

next_day(d) ==
    IF d.day < days_in_month(d.year, d.month) THEN [d EXCEPT !.day = @ + 1]
    ELSE IF d.month < 12 THEN [d EXCEPT !.month = @ + 1, !.day = 1]
    ELSE [year |-> d.year + 1, month |-> 1, day |-> 1]

prev_day(d) ==
    IF d.day > 1 THEN [d EXCEPT !.day = @ - 1]
    ELSE IF d.month > 1
         THEN [d EXCEPT !.month = @ - 1,
                        !.day = days_in_month(d.year, d.month - 1)]
    ELSE [year |-> d.year - 1, month |-> 12, day |-> 31]

\* the calendar date of day number n (day 0 is EpochDate)
RECURSIVE civil(_)
civil(n) ==
    IF n = 0 THEN EpochDate
    ELSE IF n > 0 THEN next_day(civil(n - 1))
    ELSE prev_day(civil(n + 1))

\* date.weekday(): Monday = 0 ... Sunday = 6
weekday(n) == (EpochWeekday + n) % 7

\* datetime.fromisoformat(ts).date()
date_of(ts) == ts \div TicksPerDay

now_iso == now

get_current_quarter ==
    LET today == date_of(now)
        days_since_friday == (weekday(today) - 4) % 7
        most_recent_friday == civil(today - days_since_friday)
        quarter == ((most_recent_friday.month - 1) \div 3) + 1
    IN "DONE Q" \o ToString(quarter) \o " " \o ToString(most_recent_friday.year)

get_dynamic_sections == SECTIONS \cup {get_current_quarter}

\* ------------------------------------------------------ section classifier
is_done_section_anywhere(section_name) ==
    \/ section_name \in DONE_SECTIONS
    \/ \E i \in 1..Len(section_name) :
          \/ startswith(SubSeq(section_name, i, Len(section_name)), "DONE Q")
          \/ startswith(SubSeq(section_name, i, Len(section_name)), "DONE 20")

is_done_section(section_name) ==
    \/ section_name \in DONE_SECTIONS
    \/ startswith(section_name, "DONE Q")
    \/ startswith(section_name, "DONE 20")

\* the section check shared by add_task, update_task and reorder_tasks
valid_section(section) ==
    section \in get_dynamic_sections \/ startswith(section, "DONE Q")

\* --------------------------------------------------------- lifecycle engine
append_history_overwrites(task, prefix) ==
    [task EXCEPT !.history = <<[prefix |-> prefix, ts |-> now_iso]>>]

append_history_prepends(task, prefix) ==
    [task EXCEPT !.history = <<[prefix |-> prefix, ts |-> now_iso]>> \o @]

append_history_twice(task, prefix) ==
    [task EXCEPT !.history = @ \o <<[prefix |-> prefix, ts |-> now_iso],
                                    [prefix |-> prefix, ts |-> now_iso]>>]

append_history(task, prefix) ==
    [task EXCEPT !.history = Append(@, [prefix |-> prefix, ts |-> now_iso])]

to_in_progress_keeps_blocked_at(task) ==
    append_history(
        [task EXCEPT !.in_progress = IF @ = None THEN now_iso ELSE @], "ip")

to_in_progress_resets(task) ==
    append_history(
        [task EXCEPT !.in_progress = now_iso, !.blocked_at = None], "ip")

\* (a) moving to IN_PROGRESS_SECTIONS
to_in_progress(task) ==
    append_history(
        [task EXCEPT !.in_progress = IF @ = None THEN now_iso ELSE @,
                     !.blocked_at = None], "ip")

to_clears_in_progress_always_reopens(task, source_section) ==
    append_history(
        [task EXCEPT !.in_progress = None,
                     !.blocked_at = None,
                     !.completed_at = None], "op")

\* (b) moving to CLEARS_IN_PROGRESS_SECTIONS
to_clears_in_progress(task, source_section) ==
    append_history(
        [task EXCEPT !.in_progress = None,
                     !.blocked_at = None,
                     !.completed_at = IF is_done_section(source_section)
                                      THEN None ELSE @], "op")

to_blocked_keeps_in_progress(task) ==
    append_history([task EXCEPT !.blocked_at = now_iso], "bl")

to_blocked_keeps_blocked_at(task) ==
    append_history(
        [task EXCEPT !.blocked_at = IF @ = None THEN now_iso ELSE @,
                     !.in_progress = None], "bl")

\* (c) moving to BLOCKED_SECTIONS
to_blocked(task) ==
    append_history(
        [task EXCEPT !.blocked_at = now_iso, !.in_progress = None], "bl")

to_done_keeps_completed_at(task) ==
    append_history(
        [task EXCEPT !.completed_at = IF @ = None THEN now_iso ELSE @,
                     !.in_progress = None,
                     !.blocked_at = None], "co")

to_done_unrecorded(task) ==
    [task EXCEPT !.completed_at = now_iso,
                 !.in_progress = None,
                 !.blocked_at = None]

\* (d) moving to done sections
to_done(task) ==
    append_history(
        [task EXCEPT !.completed_at = now_iso,
                     !.in_progress = None,
                     !.blocked_at = None], "co")

handle_section_transition_tracks_research(task, source_section, target_section) ==
    IF target_section \in IN_PROGRESS_SECTIONS THEN to_in_progress(task)
    ELSE IF target_section \in CLEARS_IN_PROGRESS_SECTIONS
         THEN to_clears_in_progress(task, source_section)
    ELSE IF target_section \in BLOCKED_SECTIONS THEN to_blocked(task)
    ELSE IF is_done_section(target_section) THEN to_done(task)
    ELSE task

handle_section_transition_deactivates_others(task, source_section, target_section) ==
    IF source_section \in RESEARCH_SECTIONS THEN task
    ELSE IF target_section \in IN_PROGRESS_SECTIONS THEN to_in_progress(task)
    ELSE IF target_section \in CLEARS_IN_PROGRESS_SECTIONS
         THEN to_clears_in_progress(task, source_section)
    ELSE IF target_section \in BLOCKED_SECTIONS THEN to_blocked(task)
    ELSE IF is_done_section(target_section) THEN to_done(task)
    ELSE [task EXCEPT !.in_progress = None, !.blocked_at = None]

handle_section_transition(task, source_section, target_section) ==
    IF source_section \in RESEARCH_SECTIONS THEN task
    ELSE IF target_section \in IN_PROGRESS_SECTIONS THEN to_in_progress(task)
    ELSE IF target_section \in CLEARS_IN_PROGRESS_SECTIONS
         THEN to_clears_in_progress(task, source_section)
    ELSE IF target_section \in BLOCKED_SECTIONS THEN to_blocked(task)
    ELSE IF is_done_section(target_section) THEN to_done(task)
    ELSE task

\* -------------------------------------------------------------------- store
\* the dict parse_tasks builds for one task line; an absent key reads None
new_task_dict(id, text) ==
    [ id |-> id, text |-> text, completed |-> FALSE,
      color_index |-> None, assigned_project |-> None,
      created |-> None, updated |-> None, in_progress |-> None,
      completed_at |-> None, blocked_at |-> None, history |-> <<>>,
      order_index |-> None ]

\* one "- [ ] text <!-- key:value ... -->" line; an omitted key is None.
\* The keys project: and assigned: are the fields color_index and
\* assigned_project of the line.
task_line(task, section) ==
    LET as_project == section \in PROJECT_SECTIONS /\ task.color_index \notin {None, 0}
    IN [task EXCEPT !.color_index = IF as_project THEN @ ELSE None,
                    !.assigned_project = IF as_project THEN None ELSE @]

save_tasks(sections) ==
    [s \in get_dynamic_sections \cup DOMAIN sections |->
        IF s \in DOMAIN sections
        THEN [i \in 1..Len(sections[s]) |-> task_line(sections[s][i], s)]
        ELSE <<>>]

parse_line(line, current_section) ==
    [line EXCEPT !.text = strip(@),
                 !.color_index = IF current_section \in PROJECT_SECTIONS
                                 THEN @ ELSE None]

parse_lines(file) ==
    [s \in DOMAIN file \cup get_dynamic_sections |->
        IF s \in DOMAIN file
        THEN [i \in 1..Len(file[s]) |-> parse_line(file[s][i], s)]
        ELSE <<>>]

project_tasks(sections, section_name) ==
    IF section_name \in DOMAIN sections THEN sections[section_name] ELSE <<>>

get_next_project_color_ignores_completed(sections) ==
    LET active == project_tasks(sections, "PROJECTS")
        active_color_counts(c) ==
            Cardinality({i \in 1..Len(active) : active[i].color_index = c})
        inactive == {i \in 1..NumColors : active_color_counts(i) = 0}
        fewest == {i \in 1..NumColors :
                      \A j \in 1..NumColors : active_color_counts(i) <= active_color_counts(j)}
        lowest(S) == CHOOSE i \in S : \A j \in S : i <= j
    IN IF inactive # {} THEN lowest(inactive) ELSE lowest(fewest)

get_next_project_color(sections) ==
    LET colors(name) ==
            {project_tasks(sections, name)[i].color_index :
                i \in 1..Len(project_tasks(sections, name))} \ {None, 0}
        all_used_colors == colors("PROJECTS") \cup colors("COMPLETED PROJECTS")
        active == project_tasks(sections, "PROJECTS")
        active_color_counts(c) ==
            Cardinality({i \in 1..Len(active) : active[i].color_index = c})
        unclaimed == {i \in 1..NumColors : i \notin all_used_colors}
        inactive == {i \in 1..NumColors : active_color_counts(i) = 0}
        min_count ==
            CHOOSE n \in {active_color_counts(c) : c \in colors("PROJECTS")} :
                \A c \in colors("PROJECTS") : n <= active_color_counts(c)
        fewest == {i \in 1..NumColors : active_color_counts(i) = min_count}
        lowest(S) == CHOOSE i \in S : \A j \in S : i <= j
    IN IF unclaimed # {} THEN lowest(unclaimed)
       ELSE IF inactive # {} THEN lowest(inactive)
       ELSE IF fewest # {} THEN lowest(fewest)
       ELSE 1

\* the positions migrate_project_colors visits, in visiting order
project_positions(sections) ==
    [i \in 1..Len(project_tasks(sections, "PROJECTS")) |-> <<"PROJECTS", i>>]
    \o [i \in 1..Len(project_tasks(sections, "COMPLETED PROJECTS")) |->
            <<"COMPLETED PROJECTS", i>>]

RECURSIVE migrate_from(_, _)
migrate_from(sections, positions) ==
    IF positions = <<>> THEN sections
    ELSE LET s == Head(positions)[1]
             i == Head(positions)[2]
         IN IF sections[s][i].color_index = None
            THEN migrate_from(
                    [sections EXCEPT ![s][i].color_index =
                        get_next_project_color(sections)],
                    Tail(positions))
            ELSE migrate_from(sections, Tail(positions))

migrate_project_colors(sections) ==
    migrate_from(sections, project_positions(sections))

\* An assignment is rewritten only when it names the uuid5 id an existing
\* project had under the old id scheme; every id here is a uuid4.
migrate_orphaned_assignments(sections) == sections

\* the dict parse_tasks() returns for the current file
parse_tasks ==
    migrate_orphaned_assignments(migrate_project_colors(parse_lines(TASKS_FILE)))

\* the file parse_tasks() leaves behind (a migration saves)
file_after_parse ==
    IF migrate_project_colors(parse_lines(TASKS_FILE)) # parse_lines(TASKS_FILE)
    THEN save_tasks(parse_tasks)
    ELSE TASKS_FILE

\* ------------------------------------------------------------ task lookup
has_task(sections, task_id) ==
    \E s \in DOMAIN sections :
        \E i \in 1..Len(sections[s]) : sections[s][i].id = task_id

\* the section of the first task with this id that the nested loops reach
find_section(sections, task_id) ==
    CHOOSE s \in DOMAIN sections :
        \E i \in 1..Len(sections[s]) : sections[s][i].id = task_id

find_task(sections, task_id) ==
    LET tasks == sections[find_section(sections, task_id)]
        first == CHOOSE i \in 1..Len(tasks) :
                    /\ tasks[i].id = task_id
                    /\ \A j \in 1..(i - 1) : tasks[j].id # task_id
    IN tasks[first]

all_tasks(sections) ==
    UNION {{sections[s][i] : i \in 1..Len(sections[s])} : s \in DOMAIN sections}

clear_undo == [exists |-> FALSE, content |-> <<>>]

\* ---------------------------------------------------------------- handlers
\* a mutating request is served while the request budget lasts
Served ==
    /\ requests < budget.requests
    /\ requests' = requests + 1
    /\ budget' = budget

\* bookkeeping for preBlock: a move of task_id from source to target
note_move(task_id, source, target, task) ==
    [preBlock EXCEPT ![task_id] =
        IF source \in IN_PROGRESS_SECTIONS /\ target \in BLOCKED_SECTIONS
        THEN task.in_progress ELSE NotBlocked]

\* bookkeeping for stage: 1 created in a to-do section, 2 moved to active,
\* 3 then to blocked, 4 then to active again, 5 then to a done section;
\* 0 once the task's life has left that course
note_stage(task_id, target) ==
    [stage EXCEPT ![task_id] =
        IF @ = 1 /\ target \in IN_PROGRESS_SECTIONS THEN 2
        ELSE IF @ = 2 /\ target \in BLOCKED_SECTIONS THEN 3
        ELSE IF @ = 3 /\ target \in IN_PROGRESS_SECTIONS THEN 4
        ELSE IF @ = 4 /\ is_done_section(target) THEN 5
        ELSE 0]

\* POST /api/tasks
add_task(section, text) ==
    /\ Served
    /\ nextId < budget.tasks
    /\ section # NoSection /\ valid_section(section)
    /\ strip(text) # ""
    /\ LET sections == parse_tasks
           task_id == nextId + 1
           t0 == [new_task_dict(task_id, strip(text)) EXCEPT
                    !.created = now_iso,
                    !.updated = now_iso,
                    !.in_progress = IF section \in IN_PROGRESS_SECTIONS
                                    THEN now_iso ELSE None]
           new_task == IF section \in PROJECT_SECTIONS
                       THEN [t0 EXCEPT !.color_index = get_next_project_color(sections)]
                       ELSE t0
       IN /\ section \in DOMAIN sections
          /\ TASKS_FILE' = save_tasks([sections EXCEPT ![section] = Append(@, new_task)])
          /\ UNDO_FILE' = clear_undo
          /\ nextId' = task_id
          /\ stage' = [stage EXCEPT ![task_id] =
                          IF section \in CLEARS_IN_PROGRESS_SECTIONS THEN 1 ELSE 0]
    /\ UNCHANGED <<now, preBlock, inflight, response>>

\* update_task answers 200: the task exists and a section it is moved to
\* is a valid one
update_task_accepts(sections, task_id, new_section) ==
    /\ has_task(sections, task_id)
    /\ (new_section # NoSection /\ new_section # find_section(sections, task_id)) =>
            valid_section(new_section) /\ new_section \in DOMAIN sections

update_task_sections_moved_first(sections, task_id, new_text, new_section) ==
    LET found_section == find_section(sections, task_id)
        found_task == find_task(sections, task_id)
    IN IF new_section # NoSection /\ new_section # found_section
       THEN [sections EXCEPT
               ![found_section] = list_remove(@, found_task),
               ![new_section] = Append(@, found_task)]
       ELSE sections

\* the dict update_task hands to save_tasks, from the dict it parsed
update_task_sections(sections, task_id, new_text, new_section) ==
    LET found_section == find_section(sections, task_id)
        found_task == find_task(sections, task_id)
        t1 == IF new_text # NoText
              THEN [found_task EXCEPT !.text = strip(new_text)]
              ELSE found_task
        moving == new_section # NoSection /\ new_section # found_section
        t2 == IF moving
              THEN handle_section_transition(t1, found_section, new_section)
              ELSE t1
        t3 == [t2 EXCEPT !.updated = now_iso]
    IN IF moving
       THEN [sections EXCEPT
               ![found_section] = list_remove(@, found_task),
               ![new_section] = Append(@, t3)]
       ELSE [sections EXCEPT
               ![found_section] = list_update(@, found_task, t3)]

\* PUT /api/tasks/<task_id>
update_task(task_id, new_text, new_section) ==
    /\ Served
    /\ LET sections == parse_tasks
       IN /\ update_task_accepts(sections, task_id, new_section)
          /\ LET found_section == find_section(sections, task_id)
                 found_task == find_task(sections, task_id)
                 moving == new_section # NoSection /\ new_section # found_section
             IN /\ TASKS_FILE' = save_tasks(
                       update_task_sections(sections, task_id, new_text, new_section))
                /\ preBlock' = IF moving
                               THEN note_move(task_id, found_section, new_section, found_task)
                               ELSE preBlock
                /\ stage' = IF moving THEN note_stage(task_id, new_section) ELSE stage
          /\ UNDO_FILE' = clear_undo
          /\ UNCHANGED <<now, nextId, inflight, response>>

\* DELETE /api/tasks/<task_id>
delete_task(task_id) ==
    /\ Served
    /\ LET sections == parse_tasks
       IN /\ has_task(sections, task_id)
          /\ TASKS_FILE' = save_tasks(
                 [sections EXCEPT ![find_section(sections, task_id)] =
                     list_remove(@, find_task(sections, task_id))])
          /\ UNDO_FILE' = clear_undo
          /\ preBlock' = [preBlock EXCEPT ![task_id] = NotBlocked]
          /\ stage' = [stage EXCEPT ![task_id] = 0]
          /\ UNCHANGED <<now, nextId, inflight, response>>

toggle_target_stays(section, completed) == section

\* where toggle_complete leaves the task: a project moves between PROJECTS
\* and COMPLETED PROJECTS, any other task stays
toggle_target(section, completed) ==
    IF section = "PROJECTS" /\ completed THEN "COMPLETED PROJECTS"
    ELSE IF section = "COMPLETED PROJECTS" /\ ~completed THEN "PROJECTS"
    ELSE section

\* POST /api/tasks/<task_id>/complete
toggle_complete(task_id) ==
    /\ Served
    /\ LET sections == parse_tasks
       IN /\ has_task(sections, task_id)
          /\ LET section == find_section(sections, task_id)
                 task == find_task(sections, task_id)
                 completed == ~task.completed
                 t1 == [task EXCEPT !.completed = completed,
                                    !.completed_at = IF completed THEN now_iso ELSE None]
                 to_completed == section = "PROJECTS" /\ completed
                 to_projects == section = "COMPLETED PROJECTS" /\ ~completed
                 t2 == IF to_completed THEN [t1 EXCEPT !.completed_at = now_iso]
                       ELSE IF to_projects THEN [t1 EXCEPT !.completed_at = None]
                       ELSE t1
                 t3 == IF section \notin RESEARCH_SECTIONS
                       THEN append_history(t2, IF completed THEN "co" ELSE "op")
                       ELSE t2
                 t4 == [t3 EXCEPT !.updated = now_iso]
                 target == toggle_target(section, completed)
             IN /\ TASKS_FILE' = save_tasks(
                       IF target # section
                       THEN [sections EXCEPT ![section] = list_remove(@, task),
                                             ![target] = Append(@, t4)]
                       ELSE [sections EXCEPT ![section] = list_update(@, task, t4)])
                /\ preBlock' = IF target # section
                               THEN note_move(task_id, section, target, task)
                               ELSE preBlock
                /\ stage' = [stage EXCEPT ![task_id] = 0]
          /\ UNDO_FILE' = clear_undo
          /\ UNCHANGED <<now, nextId, inflight, response>>

reorder_transition_unguarded(found_task, source_section, target_section) ==
    handle_section_transition(
        [found_task EXCEPT !.updated = now_iso], source_section, target_section)

\* reorder_tasks: only a move between sections is a transition
reorder_transition(found_task, source_section, target_section) ==
    IF source_section # target_section
    THEN handle_section_transition(
             [found_task EXCEPT !.updated = now_iso], source_section, target_section)
    ELSE found_task

\* reorder_tasks answers 200: ids and section are given and valid, and the
\* task exists
reorder_tasks_accepts(sections, task_id, target_section) ==
    /\ task_id # None /\ target_section # NoSection
    /\ valid_section(target_section)
    /\ has_task(sections, task_id)
    /\ target_section \in DOMAIN sections

\* the dict reorder_tasks hands to save_tasks, from the dict it parsed
reorder_tasks_sections(sections, task_id, target_section, index) ==
    LET source_section == find_section(sections, task_id)
        found_task == find_task(sections, task_id)
        removed == [sections EXCEPT ![source_section] = list_remove(@, found_task)]
        target_index == Min(index, Len(removed[target_section]))
        moved == reorder_transition(found_task, source_section, target_section)
    IN [removed EXCEPT ![target_section] = list_insert(@, target_index, moved)]

\* POST /api/tasks/reorder
reorder_tasks(task_id, target_section, index) ==
    /\ Served
    /\ task_id # None /\ target_section # NoSection
    /\ valid_section(target_section)
    /\ LET sections == parse_tasks
       IN /\ reorder_tasks_accepts(sections, task_id, target_section)
          /\ LET source_section == find_section(sections, task_id)
                 found_task == find_task(sections, task_id)
             IN /\ TASKS_FILE' = save_tasks(
                       reorder_tasks_sections(sections, task_id, target_section, index))
                /\ preBlock' = IF source_section # target_section
                               THEN note_move(task_id, source_section, target_section, found_task)
                               ELSE preBlock
                /\ stage' = IF source_section # target_section
                            THEN note_stage(task_id, target_section)
                            ELSE stage
    /\ UNDO_FILE' = clear_undo
    /\ UNCHANGED <<now, nextId, inflight, response>>

max_order_index_any_project(tasks, project_id) ==
    LET indexes == {t.order_index : t \in {u \in tasks : u.order_index # None}}
    IN IF indexes = {} THEN None
       ELSE CHOOSE m \in indexes : \A n \in indexes : n <= m

\* the largest order_index among the tasks assigned to the project, if any
max_order_index(tasks, project_id) ==
    LET indexes == {t.order_index : t \in
                        {u \in tasks : u.assigned_project = project_id
                                        /\ u.order_index # None}}
    IN IF indexes = {} THEN None
       ELSE CHOOSE m \in indexes : \A n \in indexes : n <= m

\* POST /api/tasks/<task_id>/assign
assign_to_project(task_id, project_id) ==
    /\ Served
    /\ project_id # None
    /\ LET sections == parse_tasks
       IN /\ has_task(sections, task_id)
          /\ \E name \in PROJECT_SECTIONS :
                \E i \in 1..Len(project_tasks(sections, name)) :
                    sections[name][i].id = project_id
          /\ LET found_task == find_task(sections, task_id)
                 t1 == [found_task EXCEPT !.assigned_project = project_id,
                                          !.updated = now_iso,
                                          !.order_index = None]
                 others == (all_tasks(sections) \ {found_task}) \cup {t1}
                 t2 == IF max_order_index(others, project_id) # None
                       THEN [t1 EXCEPT !.order_index =
                                max_order_index(others, project_id) + 1]
                       ELSE t1
             IN TASKS_FILE' = save_tasks(
                       [sections EXCEPT ![find_section(sections, task_id)] =
                           list_update(@, found_task, t2)])
    /\ UNDO_FILE' = clear_undo
    /\ UNCHANGED <<now, nextId, preBlock, stage, inflight, response>>

\* POST /api/tasks/<task_id>/unassign
unassign_from_project(task_id) ==
    /\ Served
    /\ LET sections == parse_tasks
       IN /\ has_task(sections, task_id)
          /\ LET task == find_task(sections, task_id)
             IN TASKS_FILE' = save_tasks(
                    [sections EXCEPT ![find_section(sections, task_id)] =
                        list_update(@, task,
                            [task EXCEPT !.assigned_project = None,
                                         !.order_index = None,
                                         !.updated = now_iso])])
          /\ UNDO_FILE' = clear_undo
          /\ UNCHANGED <<now, nextId, preBlock, stage, inflight, response>>

last_index_from_one(task_ids, task_id) ==
    CHOOSE i \in 1..Len(task_ids) :
        /\ task_ids[i] = task_id
        /\ \A j \in 1..Len(task_ids) : task_ids[j] = task_id => j <= i

\* the order_index enumerate() leaves on a listed task: its last position
last_index(task_ids, task_id) ==
    (CHOOSE i \in 1..Len(task_ids) :
        /\ task_ids[i] = task_id
        /\ \A j \in 1..Len(task_ids) : task_ids[j] = task_id => j <= i) - 1

\* POST /api/projects/<project_id>/reorder
reorder_project_tasks(project_id, task_ids) ==
    /\ Served
    /\ task_ids # <<>>
    /\ LET sections == parse_tasks
           listed == {task_ids[i] : i \in 1..Len(task_ids)}
       IN /\ \A id \in listed :
                /\ has_task(sections, id)
                /\ find_task(sections, id).assigned_project = project_id
          /\ TASKS_FILE' = save_tasks(
                 [s \in DOMAIN sections |->
                     [i \in 1..Len(sections[s]) |->
                         IF sections[s][i].id \in listed
                         THEN [sections[s][i] EXCEPT
                                  !.order_index = last_index(task_ids, sections[s][i].id)]
                         ELSE sections[s][i]]])
    /\ UNDO_FILE' = clear_undo
    /\ UNCHANGED <<now, nextId, preBlock, stage, inflight, response>>

\* POST /api/tasks/<task_id>/color
set_project_color(task_id, color_index) ==
    /\ Served
    /\ color_index # None /\ color_index # 0
    /\ color_index >= 1 /\ color_index <= NumColors
    /\ LET sections == parse_tasks
       IN /\ has_task(sections, task_id)
          /\ find_section(sections, task_id) \in PROJECT_SECTIONS
          /\ LET task == find_task(sections, task_id)
             IN TASKS_FILE' = save_tasks(
                    [sections EXCEPT ![find_section(sections, task_id)] =
                        list_update(@, task,
                            [task EXCEPT !.color_index = color_index,
                                         !.updated = now_iso])])
    /\ UNDO_FILE' = clear_undo
    /\ UNCHANGED <<now, nextId, preBlock, stage, inflight, response>>

\* --------------------------------------------------------- project timeline
\* _section_age_tier, flattened to <<tier, rank within the tier>>
section_age_tier(section_name) ==
    LET name == upper(section_name)
        parts == split(name)
    IN IF startswith(name, "DONE 20")
       THEN <<0, IF is_int(parts[Len(parts)]) THEN int(parts[Len(parts)]) ELSE 9999>>
       ELSE IF startswith(name, "DONE Q")
       THEN <<1, IF /\ Len(parts) >= 3
                    /\ Len(parts[2]) >= 2
                    /\ is_int(parts[3])
                    /\ is_int(SubSeq(parts[2], 2, 2))
                 THEN int(parts[3]) * 10 + int(SubSeq(parts[2], 2, 2))
                 ELSE 99999>>
       ELSE IF name = "COMPLETED PROJECTS" THEN <<2, 0>>
       ELSE IF name \in {"DONE THIS WEEK", "RESEARCH DONE"} THEN <<3, 0>>
       ELSE IF name \in {"IN PROGRESS TODAY", "RESEARCH IN PROGRESS"} THEN <<4, 0>>
       ELSE IF name = "TODO THIS WEEK" THEN <<5, 0>>
       ELSE IF name = "TODO NEXT WEEK" THEN <<6, 0>>
       ELSE IF name = "TODO FOLLOWING WEEK" THEN <<7, 0>>
       ELSE <<8, 0>>

sort_key_zero_is_unset(task, section, has_any_order_index) ==
    IF has_any_order_index
    THEN IF task.order_index # None /\ task.order_index # 0
         THEN <<0, task.order_index, 0, 0>>
         ELSE <<1, 0, 0, 0>>
    ELSE section_age_tier(section)
            \o << IF task.in_progress # None THEN task.in_progress ELSE Sentinel,
                  IF task.created # None THEN task.created ELSE Sentinel >>

sort_key_missing_first(task, section, has_any_order_index) ==
    IF has_any_order_index
    THEN IF task.order_index # None
         THEN <<0, task.order_index, 0, 0>>
         ELSE <<1, 0, 0, 0>>
    ELSE section_age_tier(section) \o <<task.in_progress, task.created>>

\* sort_key of get_project_timeline, as one flat tuple
sort_key(task, section, has_any_order_index) ==
    IF has_any_order_index
    THEN IF task.order_index # None
         THEN <<0, task.order_index, 0, 0>>
         ELSE <<1, 0, 0, 0>>
    ELSE section_age_tier(section)
            \o << IF task.in_progress # None THEN task.in_progress ELSE Sentinel,
                  IF task.created # None THEN task.created ELSE Sentinel >>

\* the three sections of the secondary area share tab and order with the
\* three TODO columns
SecondarySections == {"PROJECTS", "FOLLOW UPS", "BLOCKED"}

\* save_tasks writes the sections sorted by (tab, order).  It sorts a set of
\* names, so which of two sections with the same tab and order is written
\* first is not fixed by the code: "first" holds the secondary sections
\* that precede their TODO column.
section_sort_key(s, first) ==
    LET tie == IF s \in SecondarySections THEN (IF s \in first THEN 0 ELSE 2) ELSE 1
    IN IF s \in {"BACKLOG HIGH PRIORITY"} THEN <<0, 0, tie>>
       ELSE IF s = "BACKLOG MEDIUM PRIORITY" THEN <<0, 1, tie>>
       ELSE IF s = "BACKLOG LOW PRIORITY" THEN <<0, 2, tie>>
       ELSE IF s \in {"TODO FOLLOWING WEEK", "PROJECTS"} THEN <<1, 0, tie>>
       ELSE IF s \in {"TODO NEXT WEEK", "FOLLOW UPS"} THEN <<1, 1, tie>>
       ELSE IF s \in {"TODO THIS WEEK", "BLOCKED"} THEN <<1, 2, tie>>
       ELSE IF s = "IN PROGRESS TODAY" THEN <<1, 3, tie>>
       ELSE IF s = "DONE THIS WEEK" THEN <<1, 4, tie>>
       ELSE IF s = get_current_quarter THEN <<2, 0, tie>>
       ELSE IF startswith(s, "DONE Q") THEN <<2, 50, tie>>
       ELSE IF s = "COMPLETED PROJECTS" THEN <<2, 99, tie>>
       ELSE IF s = "DONE 2025" THEN <<2, 100, tie>>
       ELSE IF s = "PROBLEMS TO SOLVE" THEN <<3, 1, tie>>
       ELSE IF s = "THINGS TO RESEARCH" THEN <<3, 2, tie>>
       ELSE IF s = "RESEARCH IN PROGRESS" THEN <<3, 3, tie>>
       ELSE IF s = "RESEARCH DONE" THEN <<3, 4, tie>>
       ELSE <<4, 0, tie>>

\* the places <<section, index>> of the tasks assigned to the project
assigned_places(sections, project_id) ==
    {p \in UNION {{<<s, i>> : i \in 1..Len(sections[s])} : s \in DOMAIN sections} :
        sections[p[1]][p[2]].assigned_project = project_id}

\* "tasks" of the answer: the assigned tasks, each with its section, after
\* the stable sort by sort_key of the list collected in file order
assigned_tasks(sections, project_id, first) ==
    LET places == assigned_places(sections, project_id)
        n == Cardinality(places)
        has_any_order_index ==
            \E p \in places : sections[p[1]][p[2]].order_index # None
        key(p) == sort_key(sections[p[1]][p[2]], p[1], has_any_order_index)
                    \o section_sort_key(p[1], first) \o <<p[2]>>
        sorted == CHOOSE f \in [1..n -> places] :
                    \A a \in 1..n, b \in 1..n : a < b => tuple_less(key(f[a]), key(f[b]))
    IN [i \in 1..n |->
            [task |-> sections[sorted[i][1]][sorted[i][2]], section |-> sorted[i][1]]]

\* GET /api/projects/<project_id>/timeline
get_project_timeline(project_id) ==
    /\ \E s \in PROJECT_SECTIONS :
            \E i \in 1..Len(project_tasks(parse_tasks, s)) :
                parse_tasks[s][i].id = project_id
    /\ \E first \in SUBSET ({p[1] : p \in assigned_places(parse_tasks, project_id)}
                        \cap SecondarySections) :
            response' = [kind |-> "project",
                         tasks |-> assigned_tasks(parse_tasks, project_id, first)]
    /\ TASKS_FILE' = file_after_parse
    /\ UNCHANGED <<UNDO_FILE, now, nextId, requests, budget, preBlock, stage, inflight>>

\* ------------------------------------------------------ rejected requests
\* The status each handler answers with.  A handler that rejects before it
\* calls parse_tasks() touches nothing; one that rejects after the call
\* leaves the file as parse_tasks() left it.
add_task_status(section, text) ==
    IF section = NoSection \/ ~valid_section(section) THEN 400
    ELSE IF strip(text) = "" THEN 400
    ELSE 200

update_task_status(sections, task_id, new_section) ==
    IF ~has_task(sections, task_id) THEN 404
    ELSE IF /\ new_section # NoSection
            /\ new_section # find_section(sections, task_id)
            /\ ~valid_section(new_section) THEN 400
    ELSE 200

\* delete, toggle-completion and unassign look the task up and nothing else
lookup_status(sections, task_id) ==
    IF has_task(sections, task_id) THEN 200 ELSE 404

reorder_tasks_status(sections, task_id, target_section) ==
    IF task_id = None \/ target_section = NoSection THEN 400
    ELSE IF ~valid_section(target_section) THEN 400
    ELSE IF ~has_task(sections, task_id) THEN 404
    ELSE 200

assign_to_project_status(sections, task_id, project_id) ==
    IF project_id = None THEN 400
    ELSE IF ~has_task(sections, task_id) THEN 404
    ELSE IF ~(has_task(sections, project_id)
              /\ find_section(sections, project_id) \in PROJECT_SECTIONS) THEN 404
    ELSE 200

set_project_color_status(sections, task_id, color_index) ==
    IF color_index = None \/ color_index = 0 \/ color_index < 1 \/ color_index > NumColors
    THEN 400
    ELSE IF ~(has_task(sections, task_id)
              /\ find_section(sections, task_id) \in PROJECT_SECTIONS) THEN 404
    ELSE 200

\* the first offending id of the list decides the answer
RECURSIVE reorder_project_tasks_status(_, _, _)
reorder_project_tasks_status(sections, project_id, task_ids) ==
    IF task_ids = <<>> THEN 200
    ELSE IF ~has_task(sections, Head(task_ids)) THEN 404
    ELSE IF find_task(sections, Head(task_ids)).assigned_project # project_id THEN 400
    ELSE reorder_project_tasks_status(sections, project_id, Tail(task_ids))

\* rejected requests are followed while the budget lasts; they do not use it
Followed == requests < budget.requests

\* a request answered 400 before parse_tasks() is called
rejected_unread ==
    UNCHANGED vars

\* a request answered 400 or 404 after parse_tasks() was called
rejected_read ==
    /\ TASKS_FILE' = file_after_parse
    /\ UNCHANGED <<UNDO_FILE, now, nextId, requests, budget, preBlock, stage, inflight, response>>

add_task_rejected(section, text) ==
    /\ Followed
    /\ add_task_status(section, text) # 200
    /\ rejected_unread

update_task_rejected(task_id, new_text, new_section) ==
    /\ Followed
    /\ update_task_status(parse_tasks, task_id, new_section) # 200
    /\ rejected_read

delete_task_rejected(task_id) ==
    /\ Followed
    /\ lookup_status(parse_tasks, task_id) # 200
    /\ rejected_read

toggle_complete_rejected(task_id) ==
    /\ Followed
    /\ lookup_status(parse_tasks, task_id) # 200
    /\ rejected_read

unassign_from_project_rejected(task_id) ==
    /\ Followed
    /\ lookup_status(parse_tasks, task_id) # 200
    /\ rejected_read

reorder_tasks_rejected(task_id, target_section) ==
    /\ Followed
    /\ reorder_tasks_status(parse_tasks, task_id, target_section) # 200
    /\ IF reorder_tasks_status(parse_tasks, task_id, target_section) = 400
       THEN rejected_unread
       ELSE rejected_read

assign_to_project_rejected(task_id, project_id) ==
    /\ Followed
    /\ assign_to_project_status(parse_tasks, task_id, project_id) # 200
    /\ IF project_id = None THEN rejected_unread ELSE rejected_read

set_project_color_rejected(task_id, color_index) ==
    /\ Followed
    /\ set_project_color_status(parse_tasks, task_id, color_index) # 200
    /\ IF set_project_color_status(parse_tasks, task_id, color_index) = 400
       THEN rejected_unread
       ELSE rejected_read

reorder_project_tasks_rejected(project_id, task_ids) ==
    /\ Followed
    /\ task_ids = <<>> \/ reorder_project_tasks_status(parse_tasks, project_id, task_ids) # 200
    /\ IF task_ids = <<>> THEN rejected_unread ELSE rejected_read

\* a rollover handler that passes every moved task through the engine
new_week_transitions ==
    /\ Served
    /\ LET sections == parse_tasks
           current_quarter == get_current_quarter
           through(tasks, source, target) ==
               [i \in 1..Len(tasks) |->
                    handle_section_transition(tasks[i], source, target)]
       IN /\ UNDO_FILE' = [exists |-> TRUE, content |-> TASKS_FILE]
          /\ TASKS_FILE' = save_tasks(
                 [sections EXCEPT
                     ![current_quarter] = @ \o
                        through(sections["DONE THIS WEEK"], "DONE THIS WEEK", current_quarter),
                     !["DONE THIS WEEK"] = <<>>,
                     !["TODO THIS WEEK"] = @ \o
                        through(sections["TODO NEXT WEEK"], "TODO NEXT WEEK", "TODO THIS WEEK"),
                     !["TODO NEXT WEEK"] =
                        through(sections["TODO FOLLOWING WEEK"], "TODO FOLLOWING WEEK", "TODO NEXT WEEK"),
                     !["TODO FOLLOWING WEEK"] = <<>>])
          /\ UNCHANGED <<now, nextId, preBlock, stage, inflight, response>>

\* POST /api/new-week
new_week ==
    /\ Served
    /\ LET sections == parse_tasks
           current_quarter == get_current_quarter
       IN /\ UNDO_FILE' = [exists |-> TRUE, content |-> TASKS_FILE]
          /\ TASKS_FILE' = save_tasks(
                 [sections EXCEPT
                     ![current_quarter] = @ \o sections["DONE THIS WEEK"],
                     !["DONE THIS WEEK"] = <<>>,
                     !["TODO THIS WEEK"] = @ \o sections["TODO NEXT WEEK"],
                     !["TODO NEXT WEEK"] = sections["TODO FOLLOWING WEEK"],
                     !["TODO FOLLOWING WEEK"] = <<>>])
          /\ UNCHANGED <<now, nextId, preBlock, stage, inflight, response>>

\* an undo that restores the board and leaves the snapshot in place
undo_new_week_keeps_snapshot ==
    /\ Served
    /\ UNDO_FILE.exists
    /\ TASKS_FILE' = UNDO_FILE.content
    /\ UNDO_FILE' = UNDO_FILE
    /\ UNCHANGED <<now, nextId, preBlock, stage, inflight, response>>

\* POST /api/undo-new-week
undo_new_week ==
    /\ Served
    /\ UNDO_FILE.exists
    /\ TASKS_FILE' = UNDO_FILE.content
    /\ UNDO_FILE' = clear_undo
    /\ UNCHANGED <<now, nextId, preBlock, stage, inflight, response>>

\* GET /api/tasks: parse_tasks() saves when it had to colour a project
get_tasks ==
    /\ TASKS_FILE' = file_after_parse
    /\ UNCHANGED <<UNDO_FILE, now, nextId, requests, budget, preBlock, stage, inflight, response>>

\* the wall clock advances between requests
Tick ==
    /\ now < MaxTime
    /\ now' = now + 1
    /\ UNCHANGED <<TASKS_FILE, UNDO_FILE, nextId, requests, budget, preBlock, stage, inflight, response>>

\* ------------------------------------------------- requests in two steps
\* The development server (app.run, src/crumbwise.py:2030) serves requests
\* on threads, and no handler takes a lock: a handler reads the whole file
\* (parse_tasks), works on the parsed dict and writes the whole file
\* (save_tasks).  Here a PUT or a reorder is followed as those two steps.
Threads == {1, 2}

Idle ==
    [ pc |-> "idle", op |-> "", task_id |-> None, text |-> NoText,
      section |-> NoSection, index |-> 0, sections |-> <<>>,
      first |-> FALSE, wrote |-> <<>> ]

\* the request bodies followed in two steps: <<op, text, section, index>>
RaceInputs ==
    { <<"put", "b ", NoSection, 0>>,
      <<"put", NoText, "IN PROGRESS TODAY", 0>>,
      <<"put", NoText, "BLOCKED", 0>>,
      <<"reorder", NoText, "DONE THIS WEEK", 0>>,
      <<"reorder", NoText, "TODO NEXT WEEK", 0>> }

\* the sections tasks are created in before requests overlap
SeedSections == {"TODO NEXT WEEK", "IN PROGRESS TODAY"}

AllIdle == \A r \in Threads : inflight[r].pc = "idle"

\* the handler's parse_tasks() call
request_read(r, op, task_id, text, section, index) ==
    /\ inflight[r].pc = "idle"
    /\ IF op = "put"
       THEN update_task_accepts(parse_tasks, task_id, section)
       ELSE reorder_tasks_accepts(parse_tasks, task_id, section)
    /\ inflight' = [inflight EXCEPT ![r] =
            [Idle EXCEPT !.pc = "read", !.op = op, !.task_id = task_id,
                         !.text = text, !.section = section, !.index = index,
                         !.sections = parse_tasks]]
    /\ TASKS_FILE' = file_after_parse
    /\ UNCHANGED <<UNDO_FILE, now, nextId, requests, budget, preBlock, stage, response>>

write_source_rereads(r) == parse_tasks

\* the dict a handler modifies and saves is the one it parsed
write_source(r) == inflight[r].sections

\* the handler's save_tasks() and clear_undo() calls, then its 200 answer
request_write(r) ==
    /\ inflight[r].pc = "read"
    /\ LET q == inflight[r]
           sections == write_source(r)
       IN /\ TASKS_FILE' = save_tasks(
                 IF q.op = "put"
                 THEN update_task_sections(sections, q.task_id, q.text, q.section)
                 ELSE reorder_tasks_sections(sections, q.task_id, q.section, q.index))
          /\ inflight' = [inflight EXCEPT ![r] =
                 [q EXCEPT !.pc = "done",
                           !.first = \E o \in Threads \ {r} : inflight[o].pc = "read",
                           !.wrote = TASKS_FILE']]
    /\ UNDO_FILE' = clear_undo
    /\ UNCHANGED <<now, nextId, requests, budget, preBlock, stage, response>>

\* ------------------------------------------------------------ specification
\* ensure_data_file() at startup: one empty section per configured header
Init ==
    /\ TASKS_FILE = [s \in SECTIONS |-> <<>>]
    /\ UNDO_FILE = clear_undo
    /\ now = StartTime
    /\ nextId = 0
    /\ requests = 0
    /\ budget \in Budgets
    /\ preBlock = [id \in Ids |-> NotBlocked]
    /\ stage = [id \in Ids |-> 0]
    /\ inflight = [r \in Threads |-> Idle]
    /\ response = NoResponse

TaskIdLists == UNION {[1..n -> Ids] : n \in 1..MaxTasks}

Next ==
    \/ \E section \in RequestSections, text \in Texts : add_task(section, text)
    \/ \E task_id \in Ids, data \in UpdateInputs :
            update_task(task_id, data[1], data[2])
    \/ \E task_id \in Ids : delete_task(task_id)
    \/ \E task_id \in Ids : toggle_complete(task_id)
    \/ \E task_id \in Ids, section \in RequestSections, index \in 0..(MaxTasks - 1) :
            reorder_tasks(task_id, section, index)
    \/ \E task_id \in Ids, project_id \in Ids : assign_to_project(task_id, project_id)
    \/ \E task_id \in Ids : unassign_from_project(task_id)
    \/ \E project_id \in Ids, task_ids \in TaskIdLists :
            reorder_project_tasks(project_id, task_ids)
    \/ \E task_id \in Ids, color_index \in ColorIndexes :
            set_project_color(task_id, color_index)
    \/ new_week
    \/ undo_new_week
    \/ get_tasks
    \/ \E data \in AddRejectInputs : add_task_rejected(data[1], data[2])
    \/ \E task_id \in Ids, data \in RejectUpdateInputs :
            update_task_rejected(task_id, data[1], data[2])
    \/ \E task_id \in Ids : delete_task_rejected(task_id)
    \/ \E task_id \in Ids : toggle_complete_rejected(task_id)
    \/ \E task_id \in Ids \cup {None}, section \in RejectReorderSections :
            reorder_tasks_rejected(task_id, section)
    \/ \E task_id \in Ids, project_id \in Ids \cup {None} :
            assign_to_project_rejected(task_id, project_id)
    \/ \E task_id \in Ids : unassign_from_project_rejected(task_id)
    \/ \E task_id \in Ids, color_index \in ColorIndexes :
            set_project_color_rejected(task_id, color_index)
    \/ \E project_id \in Ids, task_ids \in TaskIdLists \cup {<<>>} :
            reorder_project_tasks_rejected(project_id, task_ids)
    \/ Tick

Spec == Init /\ [][Next]_vars

\* POST /api/projects/reassign-colors
reassign_project_colors ==
    /\ Served
    /\ LET sections == parse_tasks
           active_projects == project_tasks(sections, "PROJECTS")
       IN TASKS_FILE' = save_tasks(
              [sections EXCEPT !["PROJECTS"] =
                  [i \in 1..Len(active_projects) |->
                      [active_projects[i] EXCEPT
                          !.color_index = ((i - 1) % NumColors) + 1]]])
    /\ UNDO_FILE' = clear_undo
    /\ UNCHANGED <<now, nextId, preBlock, stage, inflight, response>>

\* every request of the board, the reassignment of colors included
NextUndo == Next \/ reassign_project_colors

SpecUndo == Init /\ [][NextUndo]_vars

\* tasks are created while no request is in flight, then PUT and reorder
\* requests run on the threads with their reads and writes interleaved
NextInterleaved ==
    \/ \E section \in SeedSections, text \in Texts :
            AllIdle /\ add_task(section, text)
    \/ \E r \in Threads, task_id \in Ids, data \in RaceInputs :
            request_read(r, data[1], task_id, data[2], data[3], data[4])
    \/ \E r \in Threads : request_write(r)
    \/ Tick

SpecInterleaved == Init /\ [][NextInterleaved]_vars

\* ---------------------------------------------- ordering a project's tasks
\* Two projects and MaxAssigned tasks are on the board, the tasks created
\* and assigned to the first project one tick ago and not yet ordered;
\* requests assign the tasks, order them and read the timeline.
ProjectIds == {1, 2}
AssignableIds == 3..(2 + MaxAssigned)
\* the lists a project reorder is sent: distinct ids
OrderLists ==
    {L \in UNION {[1..n -> AssignableIds] : n \in 1..MaxAssigned} :
        \A i \in 1..Len(L), j \in 1..Len(L) : L[i] = L[j] => i = j}

\* the section each task of that board was created in
created_in(id) ==
    IF id \in ProjectIds THEN "PROJECTS"
    ELSE IF id % 3 = 0 THEN "TODO NEXT WEEK"
    ELSE IF id % 3 = 1 THEN "IN PROGRESS TODAY"
    ELSE "DONE THIS WEEK"

\* the task as add_task and assign_to_project stored it at StartTime
created_task(id) ==
    [new_task_dict(id, "a") EXCEPT
        !.created = StartTime,
        !.updated = StartTime,
        !.assigned_project = IF id \in ProjectIds THEN None ELSE 1,
        !.in_progress = IF created_in(id) \in IN_PROGRESS_SECTIONS THEN StartTime ELSE None,
        !.color_index = IF id \in ProjectIds THEN id ELSE None]

RECURSIVE created_tasks(_, _)
created_tasks(section, id) ==
    IF id = 0 THEN <<>>
    ELSE created_tasks(section, id - 1)
            \o (IF created_in(id) = section THEN <<created_task(id)>> ELSE <<>>)

InitProjectOrder ==
    /\ now = StartTime + 1
    /\ TASKS_FILE = [s \in SECTIONS \cup {get_current_quarter} |->
                        created_tasks(s, 2 + MaxAssigned)]
    /\ UNDO_FILE = clear_undo
    /\ nextId = 2 + MaxAssigned
    /\ requests = 0
    /\ budget = [tasks |-> 0, requests |-> MaxOrderRequests]
    /\ preBlock = [id \in Ids |-> NotBlocked]
    /\ stage = [id \in Ids |-> 0]
    /\ inflight = [r \in Threads |-> Idle]
    /\ response = NoResponse

NextProjectOrder ==
    \/ \E task_id \in AssignableIds, project_id \in ProjectIds :
            assign_to_project(task_id, project_id)
    \/ \E task_id \in AssignableIds : unassign_from_project(task_id)
    \/ \E project_id \in ProjectIds, task_ids \in OrderLists :
            reorder_project_tasks(project_id, task_ids)
    \/ \E project_id \in ProjectIds : get_project_timeline(project_id)

SpecProjectOrder == InitProjectOrder /\ [][NextProjectOrder]_vars

\* ------------------------------------------- the chronological fallback
\* A project and two tasks assigned to it, neither ordered.  The sections
\* and timestamps of the two tasks are drawn: a task keeps its in_progress
\* through research sections into any section, and a line written before
\* timestamps were stored has none.
SortSections ==
    { "DONE 2025", "DONE Q1 2026", "DONE Q2 2026", "DONE THIS WEEK",
      "IN PROGRESS TODAY", "BLOCKED", "TODO THIS WEEK", "TODO NEXT WEEK",
      "TODO FOLLOWING WEEK", "FOLLOW UPS", "RESEARCH DONE" }
SortTimes == {None} \cup (StartTime..MaxTime)
SortCreated == {None, StartTime}

drawn_task(id, in_progress, created) ==
    [new_task_dict(id, "a") EXCEPT
        !.assigned_project = 1,
        !.in_progress = in_progress,
        !.created = created,
        !.updated = created]

drawn_board(s3, t3, s4, t4) ==
    [s \in SECTIONS \cup {get_current_quarter} \cup SortSections |->
        IF s = "PROJECTS" THEN <<created_task(1)>>
        ELSE (IF s = s3 THEN <<t3>> ELSE <<>>) \o (IF s = s4 THEN <<t4>> ELSE <<>>)]

InitTimelineSort ==
    /\ now = MaxTime
    /\ \E s3 \in SortSections, s4 \in SortSections,
          i3 \in SortTimes, i4 \in SortTimes,
          c3 \in SortCreated, c4 \in SortCreated :
            TASKS_FILE = drawn_board(s3, drawn_task(3, i3, c3), s4, drawn_task(4, i4, c4))
    /\ UNDO_FILE = clear_undo
    /\ nextId = 4
    /\ requests = 0
    /\ budget = [tasks |-> 0, requests |-> 0]
    /\ preBlock = [id \in Ids |-> NotBlocked]
    /\ stage = [id \in Ids |-> 0]
    /\ inflight = [r \in Threads |-> Idle]
    /\ response = NoResponse

NextTimelineSort == get_project_timeline(1)

SpecTimelineSort == InitTimelineSort /\ [][NextTimelineSort]_vars

\* ------------------------------------------------------------ week timeline
\* Dates are day numbers; isoformat() writes one as year, month and day.
isoformat(d) == civil(d)

max(a, b) == IF a >= b THEN a ELSE b
min(a, b) == IF a <= b THEN a ELSE b

get_timeline_week_boundaries(week_offset) ==
    LET today == date_of(now)
        days_since_sunday == (weekday(today) + 1) % 7
        this_sunday == today - days_since_sunday
        week_start == this_sunday + 7 * week_offset
    IN [week_start |-> week_start, week_end |-> week_start + 6, today |-> today]

NoStatus == ""

ACTIVE_STATUSES(prefix) ==
    IF prefix = "ip" THEN "in_progress"
    ELSE IF prefix = "bl" THEN "blocked"
    ELSE NoStatus

parsed_history_reads_all(history_str) ==
    [i \in 1..Len(history_str) |->
        [prefix |-> history_str[i].prefix, date |-> date_of(history_str[i].ts)]]

\* the entries with an "@" and a timestamp fromisoformat() reads; an entry
\* it cannot read has ts = None
parsed_history(history_str) ==
    LET valid == SelectSeq(history_str, LAMBDA e : e.ts # None)
    IN [i \in 1..Len(valid) |->
            [prefix |-> valid[i].prefix, date |-> date_of(valid[i].ts)]]

raw_spans_of_every_entry(parsed, today) ==
    [i \in 1..Len(parsed) |->
        [start |-> parsed[i].date,
         end |-> IF i + 1 <= Len(parsed) THEN parsed[i + 1].date ELSE today,
         status |-> IF parsed[i].prefix = "bl" THEN "blocked" ELSE "in_progress"]]

\* one span per ip@ or bl@ entry, up to the next entry or up to today
raw_spans(parsed, today) ==
    LET all == [i \in 1..Len(parsed) |->
                  [start |-> parsed[i].date,
                   end |-> IF i + 1 <= Len(parsed) THEN parsed[i + 1].date ELSE today,
                   status |-> ACTIVE_STATUSES(parsed[i].prefix)]]
    IN SelectSeq(all, LAMBDA span : span.status # NoStatus)

clipped_spans_unfiltered(spans, week_start, week_end) ==
    [i \in 1..Len(spans) |->
        [start |-> isoformat(max(spans[i].start, week_start)),
         end |-> isoformat(min(spans[i].end, week_end)),
         status |-> spans[i].status]]

\* the spans that touch the week, cut to it
clipped_spans(spans, week_start, week_end) ==
    LET kept == SelectSeq(spans, LAMBDA span :
                    ~(span.end < week_start \/ span.start > week_end))
    IN [i \in 1..Len(kept) |->
            [start |-> isoformat(max(kept[i].start, week_start)),
             end |-> isoformat(min(kept[i].end, week_end)),
             status |-> kept[i].status]]

compute_spans_from_history(history_str, task, today, week_start, week_end) ==
    clipped_spans(raw_spans(parsed_history(history_str), today), week_start, week_end)

compute_simplified_span_to_today(task, today, week_start, week_end, section_name) ==
    IF task.in_progress = None THEN <<>>
    ELSE clipped_spans(<<[start |-> date_of(task.in_progress), end |-> today,
                          status |-> "in_progress"]>>, week_start, week_end)

compute_simplified_span(task, today, week_start, week_end, section_name) ==
    IF task.in_progress = None THEN <<>>
    ELSE LET start_date == date_of(task.in_progress)
             end_date ==
                 IF task.completed_at # None THEN date_of(task.completed_at)
                 ELSE IF task.blocked_at # None THEN date_of(task.blocked_at)
                 ELSE IF is_done_section(section_name) THEN start_date
                 ELSE today
         IN clipped_spans(<<[start |-> start_date, end |-> end_date,
                             status |-> "in_progress"]>>, week_start, week_end)

\* a fallback that answers its span whatever week is asked for
spans_from_terminal_history_any_week(task, today, week_start, week_end, section_name) ==
    LET parsed == parsed_history(task.history)
        terminal == {i \in 1..Len(parsed) : parsed[i].prefix \in {"co", "bl"}}
    IN IF terminal = {} THEN <<>>
       ELSE LET entry == parsed[CHOOSE i \in terminal : \A j \in terminal : j <= i]
            IN <<[start |-> isoformat(entry.date),
                  end |-> isoformat(IF entry.prefix = "co" THEN entry.date ELSE today),
                  status |-> IF entry.prefix = "co" THEN "in_progress" ELSE "blocked"]>>

\* the last co@ or bl@ entry decides: a bar on the day of the co@, or a
\* blocked span from the bl@ to today
spans_from_terminal_history(task, today, week_start, week_end, section_name) ==
    LET parsed == parsed_history(task.history)
        terminal == {i \in 1..Len(parsed) : parsed[i].prefix \in {"co", "bl"}}
    IN IF terminal = {} THEN <<>>
       ELSE LET entry == parsed[CHOOSE i \in terminal : \A j \in terminal : j <= i]
            IN clipped_spans(
                   <<IF entry.prefix = "co"
                     THEN [start |-> entry.date, end |-> entry.date, status |-> "in_progress"]
                     ELSE [start |-> entry.date, end |-> today, status |-> "blocked"]>>,
                   week_start, week_end)

spans_from_timestamp_only(task, today, week_start, week_end, section_name) ==
    IF task.completed_at # None
    THEN clipped_spans(<<[start |-> date_of(task.completed_at),
                          end |-> date_of(task.completed_at),
                          status |-> "in_progress"]>>, week_start, week_end)
    ELSE IF task.blocked_at # None
    THEN clipped_spans(<<[start |-> date_of(task.blocked_at), end |-> today,
                          status |-> "blocked"]>>, week_start, week_end)
    ELSE <<>>

\* the spans get_timeline computes for one task of a section
task_spans(task, section_name, today, week_start, week_end) ==
    LET has_in_progress == task.in_progress # None
        has_history == task.history # <<>>
        from_history ==
            compute_spans_from_history(task.history, task, today, week_start, week_end)
    IN IF has_history
       THEN IF from_history = <<>> /\ ~has_in_progress
            THEN spans_from_terminal_history(task, today, week_start, week_end, section_name)
            ELSE from_history
       ELSE IF has_in_progress
       THEN compute_simplified_span(task, today, week_start, week_end, section_name)
       ELSE IF task.completed_at # None \/ task.blocked_at # None
       THEN spans_from_timestamp_only(task, today, week_start, week_end, section_name)
       ELSE IF section_name \in IN_PROGRESS_SECTIONS \cup BLOCKED_SECTIONS
       THEN IF week_start <= today /\ today <= week_end
            THEN <<[start |-> isoformat(today), end |-> isoformat(today),
                    status |-> IF section_name \in BLOCKED_SECTIONS
                               THEN "blocked" ELSE "in_progress"]>>
            ELSE <<>>
       ELSE <<>>

\* project id -> color_index, None for an id without a colored project
project_colors(sections, project_id) ==
    LET colored == {t \in UNION {{project_tasks(sections, s)[i] :
                                     i \in 1..Len(project_tasks(sections, s))} :
                                 s \in PROJECT_SECTIONS} :
                       t.id = project_id /\ t.color_index \notin {None, 0}}
    IN IF project_id = None \/ colored = {} THEN None
       ELSE (CHOOSE t \in colored : TRUE).color_index

timeline_tasks_of_every_section(sections, week, first) ==
    LET places == {p \in UNION {{<<s, i>> : i \in 1..Len(sections[s])} : s \in DOMAIN sections} :
                      task_spans(sections[p[1]][p[2]], p[1], week.today,
                                 week.week_start, week.week_end) # <<>>}
        p == CHOOSE q \in places : TRUE
    IN IF places = {} THEN <<>>
       ELSE <<[id |-> sections[p[1]][p[2]].id, text |-> sections[p[1]][p[2]].text,
               section |-> p[1],
               spans |-> task_spans(sections[p[1]][p[2]], p[1], week.today,
                                    week.week_start, week.week_end),
               assigned_project |-> None, project_color |-> None]>>

\* "tasks" of the answer, in the order of the sections of the file
timeline_tasks(sections, week, first) ==
    LET places == {p \in UNION {{<<s, i>> : i \in 1..Len(sections[s])} :
                                s \in DOMAIN sections \ RESEARCH_SECTIONS} :
                      task_spans(sections[p[1]][p[2]], p[1], week.today,
                                 week.week_start, week.week_end) # <<>>}
        n == Cardinality(places)
        key(p) == section_sort_key(p[1], first) \o <<p[2]>>
        sorted == CHOOSE f \in [1..n -> places] :
                    \A a \in 1..n, b \in 1..n : a < b => tuple_less(key(f[a]), key(f[b]))
    IN [i \in 1..n |->
            LET task == sections[sorted[i][1]][sorted[i][2]]
            IN [id |-> task.id, text |-> task.text, section |-> sorted[i][1],
                spans |-> task_spans(task, sorted[i][1], week.today,
                                     week.week_start, week.week_end),
                assigned_project |-> task.assigned_project,
                project_color |-> project_colors(sections, task.assigned_project)]]

\* GET /api/timeline?week_offset=...
get_timeline(week_offset) ==
    LET week == get_timeline_week_boundaries(week_offset)
    IN /\ \E first \in SUBSET ({s \in SecondarySections : parse_tasks[s] # <<>>}) :
             response' = [kind |-> "timeline",
                          week_start |-> isoformat(week.week_start),
                          week_end |-> isoformat(week.week_end),
                          today |-> isoformat(week.today),
                          tasks |-> timeline_tasks(parse_tasks, week, first)]
       /\ TASKS_FILE' = file_after_parse
       /\ UNCHANGED <<UNDO_FILE, now, nextId, requests, budget, preBlock, stage, inflight>>

\* Boards of one task whose history the lifecycle engine wrote: up to
\* MaxEvents entries on the days EventDays, oldest first, the task in the
\* section of its last entry with the timestamps that entry leaves.
EventDays == {0 - 5, 0 - 4, 0, 2, 3}
\* today is the last of these days
Today == CHOOSE d \in EventDays : \A e \in EventDays : e <= d
WeekOffsets == {0 - 2, 0 - 1, 0}
Prefixes == {"ip", "bl", "co", "op"}

Histories ==
    UNION {{h \in [1..n -> [prefix : Prefixes, ts : {d * TicksPerDay : d \in EventDays}]] :
               \A i \in 1..(n - 1) : h[i].ts <= h[i + 1].ts} : n \in 0..MaxEvents}

\* the section a task is in after the last entry of its history
section_after(history) ==
    IF history = <<>> THEN "TODO THIS WEEK"
    ELSE LET prefix == history[Len(history)].prefix
         IN IF prefix = "ip" THEN "IN PROGRESS TODAY"
            ELSE IF prefix = "bl" THEN "BLOCKED"
            ELSE IF prefix = "co" THEN "DONE THIS WEEK"
            ELSE "TODO THIS WEEK"

\* the task as the transitions of its history leave it
task_after(history) ==
    LET n == Len(history)
        last == IF n = 0 THEN "op" ELSE history[n].prefix
        \* in_progress keeps the time of the first ip@ of the closing run
        run == CHOOSE i \in 1..(n + 1) :
                  /\ \A j \in i..n : history[j].prefix = "ip"
                  /\ i > 1 => history[i - 1].prefix # "ip"
    IN [new_task_dict(1, "a") EXCEPT
            !.created = (0 - 5) * TicksPerDay,
            !.updated = IF n = 0 THEN (0 - 5) * TicksPerDay ELSE history[n].ts,
            !.history = history,
            !.completed = (last = "co"),
            !.in_progress = IF last = "ip" THEN history[run].ts ELSE None,
            !.blocked_at = IF last = "bl" THEN history[n].ts ELSE None,
            !.completed_at = IF last = "co" THEN history[n].ts ELSE None]

InitSpans ==
    /\ now = Today * TicksPerDay
    /\ \E history \in Histories :
          TASKS_FILE = [s \in SECTIONS \cup {get_current_quarter} |->
                          IF s = section_after(history) THEN <<task_after(history)>>
                          ELSE <<>>]
    /\ UNDO_FILE = clear_undo
    /\ nextId = 1
    /\ requests = 0
    /\ budget = [tasks |-> 1, requests |-> 0]
    /\ preBlock = [id \in Ids |-> NotBlocked]
    /\ stage = [id \in Ids |-> 0]
    /\ inflight = [r \in Threads |-> Idle]
    /\ response = NoResponse

NextSpans == \E week_offset \in WeekOffsets : get_timeline(week_offset)

SpecSpans == InitSpans /\ [][NextSpans]_vars

\* the same boards, the week after today's asked for as well
AnyWeekOffsets == WeekOffsets \cup {1}

NextAnyWeek == \E week_offset \in AnyWeekOffsets : get_timeline(week_offset)

SpecAnyWeek == InitSpans /\ [][NextAnyWeek]_vars

\* Histories with one entry the span builder cannot read: "malformed" (no
\* "@"), "ip@" (no timestamp) or "co@not-a-date", put before, between or
\* after up to MaxAround entries the lifecycle engine wrote.
MalformedEntries == {[prefix |-> p, ts |-> None] : p \in {"malformed", "ip", "co"}}

insert_at(seq, k, e) == SubSeq(seq, 1, k - 1) \o <<e>> \o SubSeq(seq, k, Len(seq))

InitMalformed ==
    /\ now = Today * TicksPerDay
    /\ \E history \in {h \in Histories : Len(h) <= MaxAround},
          entry \in MalformedEntries :
          \E k \in 1..(Len(history) + 1) :
              TASKS_FILE = [s \in SECTIONS \cup {get_current_quarter} |->
                  IF s = section_after(history)
                  THEN <<[task_after(history) EXCEPT
                             !.history = insert_at(history, k, entry)]>>
                  ELSE <<>>]
    /\ UNDO_FILE = clear_undo
    /\ nextId = 1
    /\ requests = 0
    /\ budget = [tasks |-> 1, requests |-> 0]
    /\ preBlock = [id \in Ids |-> NotBlocked]
    /\ stage = [id \in Ids |-> 0]
    /\ inflight = [r \in Threads |-> Idle]
    /\ response = NoResponse

SpecMalformed == InitMalformed /\ [][NextSpans]_vars

\* Boards of one task as a file written before histories were kept, or by
\* hand, may hold it: any of the three timestamps set or not, a short
\* history or none, in a section of any role.
SparseSections ==
    RESEARCH_SECTIONS \cup
    { "TODO THIS WEEK", "IN PROGRESS TODAY", "BLOCKED", "DONE THIS WEEK",
      "FOLLOW UPS", "BACKLOG HIGH PRIORITY", "DONE Q1 2026" }
SparseTimes == {None} \cup {d * TicksPerDay : d \in {0 - 5, 0, 3}}
SparseHistories ==
    { <<>>,
      <<[prefix |-> "ip", ts |-> 0]>>,
      <<[prefix |-> "co", ts |-> 0]>>,
      <<[prefix |-> "bl", ts |-> (0 - 5) * TicksPerDay], [prefix |-> "op", ts |-> 0]>> }

InitSparse ==
    /\ now = Today * TicksPerDay
    /\ \E section \in SparseSections, history \in SparseHistories,
          in_progress \in SparseTimes, blocked_at \in SparseTimes,
          completed_at \in SparseTimes :
          TASKS_FILE = [s \in SECTIONS \cup {get_current_quarter} \cup SparseSections |->
              IF s = section
              THEN <<[new_task_dict(1, "a") EXCEPT
                         !.history = history, !.in_progress = in_progress,
                         !.blocked_at = blocked_at, !.completed_at = completed_at]>>
              ELSE <<>>]
    /\ UNDO_FILE = clear_undo
    /\ nextId = 1
    /\ requests = 0
    /\ budget = [tasks |-> 1, requests |-> 0]
    /\ preBlock = [id \in Ids |-> NotBlocked]
    /\ stage = [id \in Ids |-> 0]
    /\ inflight = [r \in Threads |-> Idle]
    /\ response = NoResponse

SpecSparse == InitSparse /\ [][NextSpans]_vars

\* ------------------------------------------------------------- round trip
\* order_index is written as f"order_index:{n}" and read back with int()
order_index_written(order_index) ==
    IF order_index # None THEN <<ToString(order_index)>> ELSE <<>>
order_index_read(meta) == IF meta # <<>> THEN int(meta[1]) ELSE None

\* Boards handed to save_tasks: a task with each field set or not, before
\* or after a second task of its section, and a project it may be assigned to.
RoundTripSections ==
    {"TODO THIS WEEK", "PROJECTS", "COMPLETED PROJECTS", "DONE Q1 2026", "RESEARCH DONE"}
RoundTripTimes == {None, StartTime}
RoundTripOrders == {None, 0, 12}

RoundTripBoards ==
    { [s \in SECTIONS \cup {get_current_quarter} \cup RoundTripSections |->
          LET other == [new_task_dict(2, "b") EXCEPT
                           !.created = StartTime, !.updated = StartTime,
                           !.color_index = IF s \in PROJECT_SECTIONS THEN 2 ELSE None]
              project == [new_task_dict(3, "c") EXCEPT
                           !.created = StartTime, !.updated = StartTime,
                           !.color_index = 1]
              here == IF s # d.section THEN <<>>
                      ELSE IF d.first THEN <<d.task, other>> ELSE <<other, d.task>>
          IN IF s = "PROJECTS" THEN <<project>> \o here ELSE here]
      : d \in { [section |-> section, first |-> first,
                 task |-> [new_task_dict(1, "a") EXCEPT
                     !.completed = completed, !.created = StartTime,
                     !.updated = StartTime, !.in_progress = in_progress,
                     !.completed_at = completed_at, !.blocked_at = blocked_at,
                     !.history = history, !.assigned_project = assigned_project,
                     !.order_index = order_index, !.color_index = color_index]]
               : section \in RoundTripSections, first \in BOOLEAN,
                 completed \in BOOLEAN, in_progress \in RoundTripTimes,
                 completed_at \in RoundTripTimes, blocked_at \in RoundTripTimes,
                 history \in {<<>>, <<[prefix |-> "ip", ts |-> StartTime],
                                      [prefix |-> "co", ts |-> StartTime]>>},
                 assigned_project \in {None, 3}, order_index \in RoundTripOrders,
                 color_index \in {None, 3} } }

\* save_tasks(sections) followed by parse_tasks(), as the round-trip test
\* calls them on the dict it holds; the answer keeps both dicts
save_then_parse(sections) ==
    /\ inflight[1].pc = "save"
    /\ inflight[1].sections = sections
    /\ inflight' = [r \in Threads |-> Idle]
    /\ \E file \in {save_tasks(sections)} :
       \E lines \in {parse_lines(file)} :
       \E read \in {[s \in DOMAIN lines |->
                       [i \in 1..Len(lines[s]) |->
                           [lines[s][i] EXCEPT
                               !.order_index = order_index_read(order_index_written(@))]]]} :
       \E parsed \in {migrate_orphaned_assignments(migrate_project_colors(read))} :
          /\ TASKS_FILE' = IF parsed # read THEN save_tasks(parsed) ELSE file
          /\ response' = [kind |-> "parsed", tasks |-> <<>>,
                          saved |-> sections, parsed |-> parsed]
    /\ UNCHANGED <<UNDO_FILE, now, nextId, requests, budget, preBlock, stage>>

InitRoundTrip ==
    /\ TASKS_FILE = [s \in SECTIONS |-> <<>>]
    /\ UNDO_FILE = clear_undo
    /\ now = StartTime
    /\ nextId = 3
    /\ requests = 0
    /\ budget = [tasks |-> 3, requests |-> 0]
    /\ preBlock = [id \in Ids |-> NotBlocked]
    /\ stage = [id \in Ids |-> 0]
    /\ \E sections \in RoundTripBoards :
          inflight = [r \in Threads |->
                        IF r = 1 THEN [Idle EXCEPT !.pc = "save", !.sections = sections]
                        ELSE Idle]
    /\ response = NoResponse

NextRoundTrip == save_then_parse(inflight[1].sections)

SpecRoundTrip == InitRoundTrip /\ [][NextRoundTrip]_vars

\* -------------------------------------------------------- project priority
\* The priority endpoint is not part of src/crumbwise.py; it is modelled
\* from the specification: a project carries a priority out of an
\* enumerated set, a request naming another value is answered 400 and
\* changes nothing, a request for a task that is no project is answered 404.
PRIORITIES == {"high", "medium", "paused"}
PriorityInputs == PRIORITIES \cup {"urgent", ""}

\* the task with the key priority
with_priority(task, priority) ==
    [k \in DOMAIN task \cup {"priority"} |->
        IF k = "priority" THEN priority ELSE task[k]]

set_priority_status_accepts_all(sections, task_id, priority) ==
    IF ~(has_task(sections, task_id)
         /\ find_section(sections, task_id) \in PROJECT_SECTIONS) THEN 404
    ELSE 200

set_priority_status(sections, task_id, priority) ==
    IF priority \notin PRIORITIES THEN 400
    ELSE IF ~(has_task(sections, task_id)
              /\ find_section(sections, task_id) \in PROJECT_SECTIONS) THEN 404
    ELSE 200

\* the answer names the status and, when 200, the priority stored
priority_response(status, priority) ==
    [kind |-> "priority", tasks |-> <<>>, status |-> status, priority |-> priority]

\* POST /api/tasks/<task_id>/priority
set_project_priority(task_id, priority) ==
    LET sections == parse_tasks
        status == set_priority_status(sections, task_id, priority)
    IN /\ IF status = 200
          THEN LET task == find_task(sections, task_id)
               IN TASKS_FILE' = save_tasks(
                      [sections EXCEPT ![find_section(sections, task_id)] =
                          list_update(@, task, with_priority(task, priority))])
          ELSE TASKS_FILE' = TASKS_FILE
       /\ response' = priority_response(status, IF status = 200 THEN priority ELSE "")
       /\ UNCHANGED <<UNDO_FILE, now, nextId, requests, budget, preBlock, stage, inflight>>

\* three projects with a color and a priority each, and a task that is none
InitPriority ==
    /\ now = StartTime
    /\ \E first \in PRIORITIES, second \in PRIORITIES, completed \in PRIORITIES :
          TASKS_FILE = [s \in SECTIONS \cup {get_current_quarter} |->
              IF s = "PROJECTS"
              THEN <<with_priority([created_task(1) EXCEPT !.color_index = 1], first),
                     with_priority([created_task(2) EXCEPT !.color_index = 2], second)>>
              ELSE IF s = "COMPLETED PROJECTS"
              THEN <<with_priority([created_task(3) EXCEPT !.color_index = 3,
                                        !.assigned_project = None,
                                        !.completed = TRUE], completed)>>
              ELSE IF s = "TODO THIS WEEK"
              THEN <<[created_task(4) EXCEPT !.assigned_project = None]>>
              ELSE <<>>]
    /\ UNDO_FILE = clear_undo
    /\ nextId = 4
    /\ requests = 0
    /\ budget = [tasks |-> 4, requests |-> 0]
    /\ preBlock = [id \in Ids |-> NotBlocked]
    /\ stage = [id \in Ids |-> 0]
    /\ inflight = [r \in Threads |-> Idle]
    /\ response = NoResponse

NextPriority ==
    \E task_id \in 1..5, priority \in PriorityInputs :
        set_project_priority(task_id, priority)

SpecPriority == InitPriority /\ [][NextPriority]_vars

\* ------------------------------------------------------- allocating colors
\* Boards of projects only.  The colors up to MaxVaried are each held by
\* none, one or two active projects and by one completed project or none;
\* the other colors are all free, all held by one active project, or all
\* held by one completed project.
VariedColors == 1..MaxVaried
RestStatuses == {"free", "active", "completed"}

\* c repeated n times for each color c up to k, n = count[c]
RECURSIVE color_run(_, _)
color_run(count, k) ==
    IF k = 0 THEN <<>>
    ELSE color_run(count, k - 1) \o [i \in 1..count[k] |-> k]

\* the projects of one section, with ids after "before"
projects_with(colors, before) ==
    [i \in 1..Len(colors) |->
        [new_task_dict(before + i, "a") EXCEPT
            !.created = StartTime, !.updated = StartTime, !.color_index = colors[i]]]

color_board(active, completed) ==
    [s \in SECTIONS \cup {get_current_quarter} |->
        IF s = "PROJECTS" THEN projects_with(color_run(active, NumColors), 0)
        ELSE IF s = "COMPLETED PROJECTS"
        THEN projects_with(color_run(completed, NumColors),
                           Len(color_run(active, NumColors)))
        ELSE <<>>]

InitColors ==
    /\ now = StartTime
    /\ \E a \in [VariedColors -> 0..2], c \in [VariedColors -> 0..1],
          rest \in RestStatuses :
            LET active == [k \in 1..NumColors |->
                              IF k \in VariedColors THEN a[k]
                              ELSE IF rest = "active" THEN 1 ELSE 0]
                completed == [k \in 1..NumColors |->
                              IF k \in VariedColors THEN c[k]
                              ELSE IF rest = "completed" THEN 1 ELSE 0]
            IN /\ TASKS_FILE = color_board(active, completed)
               /\ nextId = Len(color_run(active, NumColors))
                              + Len(color_run(completed, NumColors))
               /\ budget = [tasks |-> nextId + MaxColorRequests,
                            requests |-> MaxColorRequests]
    /\ UNDO_FILE = clear_undo
    /\ requests = 0
    /\ preBlock = [id \in Ids |-> NotBlocked]
    /\ stage = [id \in Ids |-> 0]
    /\ inflight = [r \in Threads |-> Idle]
    /\ response = NoResponse

NextColors == \E section \in PROJECT_SECTIONS : add_task(section, " a")

SpecColors == InitColors /\ [][NextColors]_vars

\* ----------------------------------------------------- classifying sections
\* Section names handed to is_done_section: the headers of the board, the
\* archives, the names of the tests, and near misses of the prefixes.
SectionNames ==
    SECTIONS \cup ArchiveSections \cup
    { "DONE Q4 2025", "DONE 2026", "SOME RANDOM SECTION", "", "Done Q1 2026",
      "UNDONE Q1 2026", "DONE", "DONE Q", "DONE 20", "DONE 2", "DONE 1999",
      "done this week", "DONE THIS WEEK ", "DONE THIS", " DONE Q1 2026" }

\* one evaluation of is_done_section, its result kept as the answer
is_done_section_call(section_name) ==
    /\ response' = [kind |-> "is_done_section",
                    tasks |-> <<[name |-> section_name,
                                 done |-> is_done_section(section_name)]>>]
    /\ UNCHANGED <<TASKS_FILE, UNDO_FILE, now, nextId, requests, budget, preBlock, stage, inflight>>

\* today ranges from DaysBack days before the epoch to DaysAhead after it
InitSections ==
    /\ now \in {d * TicksPerDay : d \in (0 - DaysBack)..DaysAhead}
    /\ TASKS_FILE = [s \in SECTIONS |-> <<>>]
    /\ UNDO_FILE = clear_undo
    /\ nextId = 0
    /\ requests = 0
    /\ budget = [tasks |-> 0, requests |-> 0]
    /\ preBlock = [id \in Ids |-> NotBlocked]
    /\ stage = [id \in Ids |-> 0]
    /\ inflight = [r \in Threads |-> Idle]
    /\ response = NoResponse

NextSections ==
    \E section_name \in SectionNames \cup {get_current_quarter} :
        is_done_section_call(section_name)

SpecSections == InitSections /\ [][NextSections]_vars

\* ------------------------------------------------------------------ claims
stored_ids(file) == {t.id : t \in all_tasks(file)}

\* how many lines of the file carry this id
occurrences(file, task_id) ==
    Cardinality(UNION {{<<s, i>> : i \in {j \in 1..Len(file[s]) : file[s][j].id = task_id}} :
                          s \in DOMAIN file})

section_ids(file, s) ==
    IF s \in DOMAIN file THEN {file[s][i].id : i \in 1..Len(file[s])} ELSE {}

IsPrefix(a, b) == Len(a) <= Len(b) /\ SubSeq(b, 1, Len(a)) = a

Lifecycle(t) == <<t.in_progress, t.blocked_at, t.completed_at, t.history>>

Event(prefix) == [prefix |-> prefix, ts |-> now]

\* the step is a PUT with this section or a reorder into it; the cheap
\* comparison of the two files comes first
Moves(task_id, target) ==
    /\ has_task(TASKS_FILE', task_id)
    /\ find_section(TASKS_FILE', task_id) = target
    /\ \/ update_task(task_id, NoText, target)
       \/ \E index \in 0..(MaxTasks - 1) : reorder_tasks(task_id, target, index)

\* C1: no stored task has both in_progress and blocked_at set.
C1_MutualExclusion ==
    \A t \in all_tasks(TASKS_FILE) : t.in_progress = None \/ t.blocked_at = None

\* a task that was blocked and is in progress again
C1_Witness ==
    \E t \in all_tasks(TASKS_FILE) :
        /\ t.in_progress # None
        /\ \E i \in 1..Len(t.history) : t.history[i].prefix = "bl"

\* C2: every step leaves each surviving task's history unchanged or extends
\* it at the end.
C2_HistoryAppendOnly ==
    [][\A id \in Ids :
        (has_task(TASKS_FILE, id) /\ has_task(TASKS_FILE', id)) =>
            IsPrefix(find_task(TASKS_FILE, id).history,
                     find_task(TASKS_FILE', id).history)]_vars

\* a task whose history was extended after its first event
C2_Witness == \E t \in all_tasks(TASKS_FILE) : Len(t.history) >= 2

\* C3: with a clock that never runs backwards, every stored history is in
\* non-decreasing timestamp order.
C3_HistoryNonDecreasing ==
    \A t \in all_tasks(TASKS_FILE) :
        \A i, j \in 1..Len(t.history) :
            i < j => t.history[i].ts <= t.history[j].ts

\* two events recorded at different times
C3_Witness ==
    \E t \in all_tasks(TASKS_FILE) :
        Len(t.history) >= 2 /\ t.history[1].ts < t.history[2].ts

\* C4: after every step each id is stored at most once, and the set of
\* stored ids changes only by the id a create adds or the id a delete drops.
C4_MembershipUniqueTotal ==
    [][/\ \A id \in Ids : occurrences(TASKS_FILE', id) <= 1
       /\ \/ stored_ids(TASKS_FILE') = stored_ids(TASKS_FILE)
          \/ /\ nextId' = nextId + 1
             /\ stored_ids(TASKS_FILE') = stored_ids(TASKS_FILE) \cup {nextId'}
          \/ \E id \in stored_ids(TASKS_FILE) :
                /\ delete_task(id)
                /\ stored_ids(TASKS_FILE') = stored_ids(TASKS_FILE) \ {id}]_vars

\* new-week has rolled two tasks into TODO THIS WEEK and can be undone
C4_Witness ==
    UNDO_FILE.exists /\ Len(TASKS_FILE["TODO THIS WEEK"]) = 2

\* C5: a reorder or PUT naming the task's own section leaves its history and
\* timestamps alone (the reorder also leaves updated and every section's
\* membership alone); a reorder into another section applies the transition.
C5_SameSectionNoTransition ==
    [][\A id \in Ids :
        (has_task(TASKS_FILE, id) /\ has_task(TASKS_FILE', id)) =>
            LET source == find_section(TASKS_FILE, id)
                target == find_section(TASKS_FILE', id)
                old == find_task(TASKS_FILE, id)
                new == find_task(TASKS_FILE', id)
            IN /\ (/\ target = source /\ requests' # requests
                   /\ \E index \in 0..(MaxTasks - 1) : reorder_tasks(id, source, index)) =>
                    /\ Lifecycle(new) = Lifecycle(old)
                    /\ new.updated = old.updated
                    /\ \A s \in DOMAIN TASKS_FILE' :
                          section_ids(TASKS_FILE', s) = section_ids(TASKS_FILE, s)
               /\ (/\ target = source /\ requests' # requests
                   /\ \E new_text \in {NoText, "b "} : update_task(id, new_text, source)) =>
                    Lifecycle(new) = Lifecycle(old)
               /\ (/\ target # source
                   /\ \E index \in 0..(MaxTasks - 1) : reorder_tasks(id, target, index)) =>
                    Lifecycle(new) =
                        Lifecycle(handle_section_transition(old, source, target))]_vars

\* the third request swapped two tasks inside IN PROGRESS TODAY
C5_Witness ==
    /\ requests = 3
    /\ Len(TASKS_FILE["IN PROGRESS TODAY"]) = 2
    /\ TASKS_FILE["IN PROGRESS TODAY"][1].id = 2
    /\ TASKS_FILE["IN PROGRESS TODAY"][2].id = 1
    /\ \A i \in 1..2 :
          /\ TASKS_FILE["IN PROGRESS TODAY"][i].history = <<>>
          /\ TASKS_FILE["IN PROGRESS TODAY"][i].in_progress # None

\* C6: a task that leaves a research section keeps in_progress, blocked_at,
\* completed_at and history exactly as they were.
C6_ExemptSource ==
    [][\A id \in Ids :
        (/\ has_task(TASKS_FILE, id) /\ has_task(TASKS_FILE', id)
         /\ find_section(TASKS_FILE, id) \in RESEARCH_SECTIONS
         /\ find_section(TASKS_FILE', id) # find_section(TASKS_FILE, id)) =>
            Lifecycle(find_task(TASKS_FILE', id)) =
                Lifecycle(find_task(TASKS_FILE, id))]_vars

\* a task sits in the active section without in_progress or history
C6_Witness ==
    \E i \in 1..Len(TASKS_FILE["IN PROGRESS TODAY"]) :
        /\ TASKS_FILE["IN PROGRESS TODAY"][i].in_progress = None
        /\ TASKS_FILE["IN PROGRESS TODAY"][i].history = <<>>

\* C7: a move from a non-research section into an active section sets
\* in_progress to now only if it was unset, clears blocked_at and appends
\* one ip event.
C7_MoveToInProgress ==
    [][\A id \in Ids, target \in IN_PROGRESS_SECTIONS :
        (/\ has_task(TASKS_FILE, id)
         /\ find_section(TASKS_FILE, id) \notin RESEARCH_SECTIONS \cup {target}
         /\ Moves(id, target)) =>
            LET old == find_task(TASKS_FILE, id)
                new == find_task(TASKS_FILE', id)
            IN /\ new.in_progress =
                    IF old.in_progress = None THEN now ELSE old.in_progress
               /\ new.blocked_at = None
               /\ new.history = Append(old.history, Event("ip"))]_vars

\* a task entered the active section with its earlier in_progress kept
C7_Witness ==
    \E i \in 1..Len(TASKS_FILE["IN PROGRESS TODAY"]) :
        LET t == TASKS_FILE["IN PROGRESS TODAY"][i]
        IN /\ t.history # <<>>
           /\ t.history[Len(t.history)].prefix = "ip"
           /\ t.in_progress # None
           /\ t.in_progress < t.history[Len(t.history)].ts

\* a task moved active -> blocked is moved back to active
Resumes(id) ==
    /\ has_task(TASKS_FILE, id) /\ has_task(TASKS_FILE', id)
    /\ preBlock[id] # NotBlocked
    /\ find_section(TASKS_FILE, id) \in BLOCKED_SECTIONS
    /\ find_section(TASKS_FILE', id) \in IN_PROGRESS_SECTIONS

\* C8 as claimed: after active -> blocked -> active, in_progress is what it
\* was before the task was blocked.
C8_ResumeKeepsActivation ==
    [][\A id \in Ids :
        Resumes(id) => find_task(TASKS_FILE', id).in_progress = preBlock[id]]_vars

\* C8 amended: blocking clears in_progress, and the resume sets it to the
\* time of the resume.
C8_ResumeRestartsActivation ==
    [][\A id \in Ids :
        Resumes(id) =>
            /\ find_task(TASKS_FILE, id).in_progress = None
            /\ find_task(TASKS_FILE', id).in_progress = now]_vars

\* a task blocked and resumed, in progress since later than its creation
C8_Witness ==
    \E i \in 1..Len(TASKS_FILE["IN PROGRESS TODAY"]) :
        LET t == TASKS_FILE["IN PROGRESS TODAY"][i]
        IN /\ Len(t.history) >= 2
           /\ t.history[Len(t.history) - 1].prefix = "bl"
           /\ t.history[Len(t.history)].prefix = "ip"
           /\ t.in_progress = t.history[Len(t.history)].ts
           /\ t.in_progress > t.created

\* C9: a move from a non-research section into a blocked section sets
\* blocked_at to now whatever it was, clears in_progress and appends one bl
\* event.
C9_MoveToBlocked ==
    [][\A id \in Ids, target \in BLOCKED_SECTIONS :
        (/\ has_task(TASKS_FILE, id)
         /\ find_section(TASKS_FILE, id) \notin RESEARCH_SECTIONS \cup {target}
         /\ Moves(id, target)) =>
            LET old == find_task(TASKS_FILE, id)
                new == find_task(TASKS_FILE', id)
            IN /\ new.blocked_at = now
               /\ new.in_progress = None
               /\ new.history = Append(old.history, Event("bl"))]_vars

\* a task blocked a second time while blocked_at was still set
C9_Witness ==
    \E i \in 1..Len(TASKS_FILE["BLOCKED"]) :
        LET t == TASKS_FILE["BLOCKED"][i]
        IN /\ Len(t.history) >= 2
           /\ t.history[Len(t.history) - 1].prefix = "bl"
           /\ t.history[Len(t.history)].prefix = "bl"
           /\ t.history[Len(t.history) - 1].ts < t.history[Len(t.history)].ts
           /\ t.blocked_at = t.history[Len(t.history)].ts

\* C10: a move from a non-research section into a to-do or backlog section
\* clears in_progress and blocked_at, appends one op event, and clears
\* completed_at exactly when the source was a done section.
C10_MoveToBacklog ==
    [][\A id \in Ids, target \in CLEARS_IN_PROGRESS_SECTIONS :
        (/\ has_task(TASKS_FILE, id)
         /\ find_section(TASKS_FILE, id) \notin RESEARCH_SECTIONS \cup {target}
         /\ Moves(id, target)) =>
            LET old == find_task(TASKS_FILE, id)
                new == find_task(TASKS_FILE', id)
            IN /\ new.in_progress = None
               /\ new.blocked_at = None
               /\ new.history = Append(old.history, Event("op"))
               /\ new.completed_at =
                    IF is_done_section(find_section(TASKS_FILE, id))
                    THEN None ELSE old.completed_at]_vars

\* a completed task moved back to a to-do section from a section that is
\* not a done section keeps completed_at
C10_Witness ==
    \E i \in 1..Len(TASKS_FILE["TODO NEXT WEEK"]) :
        LET t == TASKS_FILE["TODO NEXT WEEK"][i]
        IN /\ t.history # <<>>
           /\ t.history[Len(t.history)].prefix = "op"
           /\ t.completed_at # None

\* the done-role sections a request can name
DoneTargets == {s \in PutSections : is_done_section(s)}

\* C11: a move from a non-research section into a done section (DONE THIS
\* WEEK, a quarterly or a yearly section) sets completed_at to now whatever
\* it was, clears in_progress and blocked_at and appends one co event.
C11_MoveToDone ==
    [][\A id \in Ids, target \in DoneTargets :
        (/\ has_task(TASKS_FILE, id)
         /\ find_section(TASKS_FILE, id) \notin RESEARCH_SECTIONS \cup {target}
         /\ Moves(id, target)) =>
            LET old == find_task(TASKS_FILE, id)
                new == find_task(TASKS_FILE', id)
            IN /\ new.completed_at = now
               /\ new.in_progress = None
               /\ new.blocked_at = None
               /\ new.history = Append(old.history, Event("co"))]_vars

\* a task already done was moved on into a quarterly or yearly section at a
\* later time, and completed_at was overwritten
C11_Witness ==
    \E s \in ArchiveSections :
        /\ s \in DOMAIN TASKS_FILE
        /\ \E i \in 1..Len(TASKS_FILE[s]) :
              LET t == TASKS_FILE[s][i]
              IN /\ Len(t.history) >= 2
                 /\ t.history[Len(t.history) - 1].prefix = "co"
                 /\ t.history[Len(t.history)].prefix = "co"
                 /\ t.history[Len(t.history) - 1].ts < t.history[Len(t.history)].ts
                 /\ t.completed_at = t.history[Len(t.history)].ts

\* the sections a request can name that carry no lifecycle role
NoRoleTargets ==
    {s \in PutSections :
        /\ s \notin IN_PROGRESS_SECTIONS \cup CLEARS_IN_PROGRESS_SECTIONS
                        \cup BLOCKED_SECTIONS
        /\ ~is_done_section(s)}

\* C12: a move into a section without lifecycle role (project, FOLLOW UPS,
\* research) leaves in_progress, blocked_at, completed_at and history as
\* they were, whatever the source.
C12_NoRoleTargetNeutral ==
    [][\A id \in Ids, target \in NoRoleTargets :
        (/\ has_task(TASKS_FILE, id)
         /\ find_section(TASKS_FILE, id) # target
         /\ Moves(id, target)) =>
            Lifecycle(find_task(TASKS_FILE', id)) =
                Lifecycle(find_task(TASKS_FILE, id))]_vars

\* a task moved out of the active section into FOLLOW UPS still carries
\* its in_progress and its last event is still ip
C12_Witness ==
    \E i \in 1..Len(TASKS_FILE["FOLLOW UPS"]) :
        LET t == TASKS_FILE["FOLLOW UPS"][i]
        IN /\ t.in_progress # None
           /\ t.history # <<>>
           /\ t.history[Len(t.history)].prefix = "ip"

\* C13 as claimed: the engine called with the section a stored task is
\* already in, as source and as target, changes none of its in_progress,
\* blocked_at, completed_at and history.
C13_SameSectionEngineNoOp ==
    \A s \in DOMAIN TASKS_FILE :
        \A i \in 1..Len(TASKS_FILE[s]) :
            Lifecycle(handle_section_transition(TASKS_FILE[s][i], s, s)) =
                Lifecycle(TASKS_FILE[s][i])

\* the event kinds of a history, oldest first
Kinds(t) == [i \in 1..Len(t.history) |-> t.history[i].prefix]

\* C14: a task created in a to-do section and moved to active, to blocked,
\* to active again and to a done section has, after each move, the history
\* ip / ip bl / ip bl ip / ip bl ip co and the fields the claim lists.
C14_LifecycleScenario ==
    \A id \in Ids :
        (stage[id] >= 2 /\ has_task(TASKS_FILE, id)) =>
            LET t == find_task(TASKS_FILE, id)
            IN /\ stage[id] = 2 =>
                    /\ Kinds(t) = <<"ip">>
                    /\ t.in_progress # None
               /\ stage[id] = 3 =>
                    /\ Kinds(t) = <<"ip", "bl">>
                    /\ t.blocked_at # None /\ t.in_progress = None
               /\ stage[id] = 4 =>
                    /\ Kinds(t) = <<"ip", "bl", "ip">>
                    /\ t.in_progress # None /\ t.blocked_at = None
               /\ stage[id] = 5 =>
                    /\ Kinds(t) = <<"ip", "bl", "ip", "co">>
                    /\ t.completed_at # None
                    /\ t.in_progress = None /\ t.blocked_at = None

\* a task has made all four moves and sits in a done section
C14_Witness ==
    \E id \in Ids :
        /\ stage[id] = 5
        /\ has_task(TASKS_FILE, id)
        /\ is_done_section(find_section(TASKS_FILE, id))

\* C15: toggle-completion flips completed, sets completed_at to now when the
\* task becomes completed and to None when it becomes uncompleted, and
\* appends one co or op event to match, except in a research section, where
\* history stays as it was.
C15_ToggleCompletion ==
    [][\A id \in Ids :
        (/\ requests' # requests /\ nextId' = nextId
         /\ has_task(TASKS_FILE, id) /\ has_task(TASKS_FILE', id)
         /\ toggle_complete(id)) =>
            LET old == find_task(TASKS_FILE, id)
                new == find_task(TASKS_FILE', id)
            IN /\ new.completed = ~old.completed
               /\ new.completed_at = IF new.completed THEN now ELSE None
               /\ new.history =
                    IF find_section(TASKS_FILE, id) \in RESEARCH_SECTIONS
                    THEN old.history
                    ELSE Append(old.history,
                                Event(IF new.completed THEN "co" ELSE "op"))]_vars

\* a task in BLOCKED was checked and unchecked again: the last two events
\* are co and op, and completed_at is None
C15_Witness ==
    \E i \in 1..Len(TASKS_FILE["BLOCKED"]) :
        LET t == TASKS_FILE["BLOCKED"][i]
        IN /\ Len(t.history) >= 2
           /\ t.history[Len(t.history) - 1].prefix = "co"
           /\ t.history[Len(t.history)].prefix = "op"
           /\ ~t.completed
           /\ t.completed_at = None

\* C16: toggling a project in PROJECTS that becomes completed puts it, in
\* the same write, into COMPLETED PROJECTS with completed_at set and a co
\* event appended; toggling one in COMPLETED PROJECTS that becomes
\* uncompleted puts it into PROJECTS with completed_at None and an op event
\* appended.
C16_ProjectCompletionRelocates ==
    [][\A id \in Ids :
        (/\ requests' # requests /\ nextId' = nextId
         /\ has_task(TASKS_FILE, id)
         /\ find_section(TASKS_FILE, id) \in PROJECT_SECTIONS
         /\ toggle_complete(id)) =>
            LET source == find_section(TASKS_FILE, id)
                old == find_task(TASKS_FILE, id)
            IN /\ (source = "PROJECTS" /\ ~old.completed) =>
                    /\ occurrences(TASKS_FILE', id) = 1
                    /\ find_section(TASKS_FILE', id) = "COMPLETED PROJECTS"
                    /\ find_task(TASKS_FILE', id).completed
                    /\ find_task(TASKS_FILE', id).completed_at = now
                    /\ find_task(TASKS_FILE', id).history =
                            Append(old.history, Event("co"))
               /\ (source = "COMPLETED PROJECTS" /\ old.completed) =>
                    /\ occurrences(TASKS_FILE', id) = 1
                    /\ find_section(TASKS_FILE', id) = "PROJECTS"
                    /\ ~find_task(TASKS_FILE', id).completed
                    /\ find_task(TASKS_FILE', id).completed_at = None
                    /\ find_task(TASKS_FILE', id).history =
                            Append(old.history, Event("op"))]_vars

\* a project created in PROJECTS was completed and reopened by two toggles
\* and is back in PROJECTS
C16_Witness ==
    /\ requests = 3 /\ nextId = 1
    /\ Len(TASKS_FILE["PROJECTS"]) = 1
    /\ Kinds(TASKS_FILE["PROJECTS"][1]) = <<"co", "op">>
    /\ ~TASKS_FILE["PROJECTS"][1].completed
    /\ TASKS_FILE["PROJECTS"][1].completed_at = None

\* C17 as claimed: for every stored task with a non-empty history,
\* in_progress is set exactly when the last event is ip, blocked_at exactly
\* when it is bl, and completed_at exactly when it is co.
C17_ScalarsMirrorHistory ==
    \A t \in all_tasks(TASKS_FILE) :
        t.history # <<>> =>
            LET last == t.history[Len(t.history)].prefix
            IN /\ (t.in_progress # None) <=> (last = "ip")
               /\ (t.blocked_at # None) <=> (last = "bl")
               /\ (t.completed_at # None) <=> (last = "co")

\* the task leaves a done section for an active, blocked or to-do section
Reopens(id) ==
    /\ has_task(TASKS_FILE, id)
    /\ is_done_section(find_section(TASKS_FILE, id))
    /\ \E target \in (IN_PROGRESS_SECTIONS \cup BLOCKED_SECTIONS
                        \cup CLEARS_IN_PROGRESS_SECTIONS) \cap PutSections :
            Moves(id, target)

\* the task is unchecked by toggle-completion
Unchecks(id) ==
    /\ requests' # requests /\ nextId' = nextId
    /\ has_task(TASKS_FILE, id) /\ has_task(TASKS_FILE', id)
    /\ find_task(TASKS_FILE, id).completed
    /\ toggle_complete(id)

\* C18 as claimed: after a task leaves a done section for an active, blocked
\* or to-do section, or is unchecked by toggle-completion, its completed_at
\* is None.
C18_ReopenClearsCompletedAt ==
    [][\A id \in Ids :
        (Reopens(id) \/ Unchecks(id)) =>
            find_task(TASKS_FILE', id).completed_at = None]_vars

\* what a client sees of a stored task
Visible(file, id) ==
    LET t == find_task(file, id)
    IN <<find_section(file, id), t.text, t.updated, t.in_progress,
         t.blocked_at, t.completed_at, t.history>>

\* thread r1 wrote while r2 had read and not yet written, then r2 wrote;
\* the two requests are about different tasks and both were answered 200
BothReadBeforeEitherWrote(r1, r2) ==
    /\ r1 # r2
    /\ inflight[r1].pc = "done" /\ inflight[r1].first
    /\ inflight[r2].pc = "done"
    /\ inflight[r1].task_id # inflight[r2].task_id

\* C19: when two mutating requests both read the file before either writes,
\* the later write puts back what its handler read: the task the first
\* request changed is stored exactly as the second request read it, so the
\* first request's update is lost although it was answered with success.
C19_LostUpdate ==
    \A r1 \in Threads, r2 \in Threads :
        BothReadBeforeEitherWrote(r1, r2) =>
            LET id == inflight[r1].task_id
            IN /\ has_task(TASKS_FILE, id)
               /\ Visible(TASKS_FILE, id) = Visible(save_tasks(inflight[r2].sections), id)

\* both requests are answered, and the stored task differs from the one the
\* first request wrote: its new section and its timestamps are gone
C19_Witness ==
    \E r1 \in Threads, r2 \in Threads :
        /\ BothReadBeforeEitherWrote(r1, r2)
        /\ inflight[r1].section # NoSection
        /\ find_section(inflight[r1].wrote, inflight[r1].task_id) = inflight[r1].section
        /\ find_section(TASKS_FILE, inflight[r1].task_id) # inflight[r1].section
        /\ Visible(TASKS_FILE, inflight[r1].task_id)
               # Visible(inflight[r1].wrote, inflight[r1].task_id)

\* where a stored task is and the lifecycle metadata stored with it
Placed(file, id) == <<find_section(file, id), Lifecycle(find_task(file, id))>>

\* thread r's handler writes the file in this step
Writes(r) == inflight[r].pc = "read" /\ inflight'[r].pc = "done"

\* C20: a task's section and its lifecycle metadata change in the same
\* store write.  Whenever the stored section or metadata of a task changes,
\* one handler has written the file, and the task is then stored either in
\* the target section with the metadata the transition engine gives for
\* that move, or (another task's request) in the section and with the
\* metadata the handler read: never in the new section with pre-move
\* metadata, never in the old section with post-move metadata.
C20_MoveIsOneWrite ==
    [][\A id \in Ids :
          (/\ has_task(TASKS_FILE, id)
           /\ has_task(TASKS_FILE', id)
           /\ Placed(TASKS_FILE', id) # Placed(TASKS_FILE, id)) =>
              \E r \in Threads :
                  /\ Writes(r)
                  /\ LET q == inflight[r]
                         old == find_task(q.sections, id)
                         source == find_section(q.sections, id)
                     IN IF q.task_id = id
                        THEN Placed(TASKS_FILE', id) =
                               <<IF q.section = NoSection THEN source ELSE q.section,
                                 IF q.section = NoSection \/ q.section = source
                                 THEN Lifecycle(old)
                                 ELSE Lifecycle(handle_section_transition(
                                                    old, source, q.section))>>
                        ELSE Placed(TASKS_FILE', id) = <<source, Lifecycle(old)>>
      ]_vars

\* a PUT and a cross-section reorder have both been written: the file
\* holds a task moved to a done section with its completion recorded and
\* the handler that moved it read it elsewhere with no completion
C20_Witness ==
    \E r \in Threads :
        /\ inflight[r].pc = "done"
        /\ inflight[r].op = "reorder"
        /\ find_section(inflight[r].sections, inflight[r].task_id) = "IN PROGRESS TODAY"
        /\ find_section(TASKS_FILE, inflight[r].task_id) = "DONE THIS WEEK"
        /\ find_task(TASKS_FILE, inflight[r].task_id).completed_at # None
        /\ find_task(inflight[r].sections, inflight[r].task_id).completed_at = None
        /\ \E o \in Threads : inflight[o].pc = "done" /\ inflight[o].op = "put"
                                /\ inflight[o].section = "BLOCKED"

\* this step is a request answered with 400 or 404
AnswersError ==
    /\ requests' = requests
    /\ \/ \E data \in AddRejectInputs : add_task_rejected(data[1], data[2])
       \/ \E task_id \in Ids, data \in RejectUpdateInputs :
              update_task_rejected(task_id, data[1], data[2])
       \/ \E task_id \in Ids : delete_task_rejected(task_id)
       \/ \E task_id \in Ids : toggle_complete_rejected(task_id)
       \/ \E task_id \in Ids \cup {None}, section \in RejectReorderSections :
              reorder_tasks_rejected(task_id, section)
       \/ \E task_id \in Ids, project_id \in Ids \cup {None} :
              assign_to_project_rejected(task_id, project_id)
       \/ \E task_id \in Ids : unassign_from_project_rejected(task_id)
       \/ \E task_id \in Ids, color_index \in ColorIndexes :
              set_project_color_rejected(task_id, color_index)
       \/ \E project_id \in Ids, task_ids \in TaskIdLists \cup {<<>>} :
              reorder_project_tasks_rejected(project_id, task_ids)

\* the tasks of the stored board, section by section; a section without
\* tasks counts the same whether its header is stored or not
Board(file) ==
    [s \in SECTIONS \cup ArchiveSections |-> project_tasks(file, s)]

\* C21 as claimed: a request answered with 400 or 404 leaves every task of
\* the stored board, with all its fields, exactly as it was.
C21_RejectedLeavesBoard ==
    [][AnswersError => Board(TASKS_FILE') = Board(TASKS_FILE)]_vars

\* the board without the colors of its projects
Uncoloured(file) ==
    [s \in DOMAIN Board(file) |->
        [i \in 1..Len(Board(file)[s]) |->
            [Board(file)[s][i] EXCEPT !.color_index = None]]]

\* what a rejected request does keep: every task's section, position and
\* fields other than a project's color, and the undo snapshot
RejectedKeepsAllButColor ==
    [][AnswersError =>
          /\ Uncoloured(TASKS_FILE') = Uncoloured(TASKS_FILE)
          /\ UNDO_FILE' = UNDO_FILE]_vars

\* the ids of a timeline answer, in the order answered
answered_ids(tasks) == [i \in 1..Len(tasks) |-> tasks[i].task.id]

\* the members of a sequence that are listed in L, in their order
listed_of(ids, L) ==
    SelectSeq(ids, LAMBDA x : \E i \in 1..Len(L) : L[i] = x)

DuplicateFree(L) == \A i \in 1..Len(L), j \in 1..Len(L) : L[i] = L[j] => i = j

\* C22: a project reorder with a list L of distinct ids, all assigned to the
\* project, stores order_index = position in L (from 0) on each listed
\* task, leaves the updated field of every task as it was, and the project
\* timeline read from the stored board then has the listed tasks in the
\* order of L, whichever way sections of equal rank are written.
C22_ReorderSetsPositions ==
    [][\A project_id \in ProjectIds, L \in OrderLists :
          (/\ requests' # requests
           /\ DuplicateFree(L)
           /\ \A i \in 1..Len(L) :
                 find_task(TASKS_FILE, L[i]).assigned_project = project_id
           /\ reorder_project_tasks(project_id, L)) =>
              /\ \A i \in 1..Len(L) :
                    find_task(TASKS_FILE', L[i]).order_index = i - 1
              /\ \A id \in stored_ids(TASKS_FILE) :
                    /\ has_task(TASKS_FILE', id)
                    /\ find_task(TASKS_FILE', id).updated = find_task(TASKS_FILE, id).updated
              /\ \A after \in {parse_tasks'}, first \in SUBSET SecondarySections :
                    listed_of(answered_ids(
                        assigned_tasks(after, project_id, first)), L) = L
      ]_vars

\* the timeline of project 1 was read after its three tasks, assigned at
\* StartTime, were put in the order 5, 3, 4 one tick later
C22_Witness ==
    /\ response.kind = "project"
    /\ answered_ids(response.tasks) = <<5, 3, 4>>
    /\ \A i \in 1..3 :
          /\ response.tasks[i].task.order_index = i - 1
          /\ response.tasks[i].task.assigned_project = 1
          /\ response.tasks[i].task.updated = StartTime
    /\ now > StartTime

\* the order_index values stored on the tasks, other than task_id, that are
\* assigned to the project
OrderedOthers(file, task_id, project_id) ==
    {u.order_index : u \in {v \in all_tasks(file) :
        v.id # task_id /\ v.assigned_project = project_id /\ v.order_index # None}}

\* C23: assigning a task to a project stores the project on it and, whatever
\* order_index the task carried, leaves it with one more than the largest
\* order_index of the project's other tasks when one of them has an
\* order_index, and with no order_index otherwise.
C23_AssignOrderIndex ==
    [][\A task_id \in AssignableIds, project_id \in ProjectIds :
          (/\ requests' # requests
           /\ find_task(TASKS_FILE', task_id).assigned_project = project_id
           /\ assign_to_project(task_id, project_id)) =>
              LET others == OrderedOthers(TASKS_FILE, task_id, project_id)
                  stored == find_task(TASKS_FILE', task_id).order_index
              IN IF others = {}
                 THEN stored = None
                 ELSE /\ stored # None
                      /\ stored - 1 \in others
                      /\ \A n \in others : n < stored
      ]_vars

\* tasks 3 and 4 were ordered in project 1, task 5 was assigned to project 1
\* again and went to the end, task 3 was assigned to project 2, which has
\* no ordered task, and lost the order_index it carried
C23_Witness ==
    /\ requests = 3
    /\ find_task(TASKS_FILE, 3).assigned_project = 2
    /\ find_task(TASKS_FILE, 3).order_index = None
    /\ find_task(TASKS_FILE, 4).assigned_project = 1
    /\ find_task(TASKS_FILE, 4).order_index = 1
    /\ find_task(TASKS_FILE, 5).assigned_project = 1
    /\ find_task(TASKS_FILE, 5).order_index = 2

\* the order_index of each task of a timeline answer, in the order answered
answered_order(tasks) == [i \in 1..Len(tasks) |-> tasks[i].task.order_index]

\* C24: when a project timeline answer holds a task with an order_index
\* (0 included), the tasks with an order_index are in ascending order of it
\* and no task without one precedes a task with one.
C24_OrderIndexSort ==
    (/\ response.kind = "project"
     /\ \E i \in 1..Len(response.tasks) : answered_order(response.tasks)[i] # None) =>
        \A i \in 1..Len(response.tasks), j \in 1..Len(response.tasks) :
            i < j =>
                LET a == answered_order(response.tasks)[i]
                    b == answered_order(response.tasks)[j]
                IN /\ (a # None /\ b # None) => a <= b
                   /\ b # None => a # None

\* only task 3 is ordered, with order_index 0: it is answered first although
\* its section is the youngest, and the two unordered tasks follow
C24_Witness ==
    /\ response.kind = "project"
    /\ answered_ids(response.tasks) = <<3, 4, 5>>
    /\ answered_order(response.tasks) = <<0, None, None>>
    /\ response.tasks[1].section = "TODO NEXT WEEK"
    /\ response.tasks[3].section = "DONE THIS WEEK"

\* a comes no later than b when a missing value sorts last
MissingLast(a, b) == b = None \/ (a # None /\ a <= b)

\* C25: a project timeline answer without any order_index is in ascending
\* order of (age tier of the section, in_progress, created), a missing
\* in_progress or created sorting after every present one; and a task in a
\* yearly archive precedes a task in the active section whatever their
\* timestamps are.
C25_ChronologicalFallback ==
    (/\ response.kind = "project"
     /\ \A i \in 1..Len(response.tasks) : answered_order(response.tasks)[i] = None) =>
        \A i \in 1..Len(response.tasks), j \in 1..Len(response.tasks) :
            i < j =>
                LET a == response.tasks[i]
                    b == response.tasks[j]
                    ta == section_age_tier(a.section)
                    tb == section_age_tier(b.section)
                IN /\ \/ tuple_less(ta, tb)
                      \/ /\ ta = tb
                         /\ MissingLast(a.task.in_progress, b.task.in_progress)
                         /\ a.task.in_progress = b.task.in_progress =>
                                MissingLast(a.task.created, b.task.created)
                   /\ ~(a.section = "IN PROGRESS TODAY" /\ b.section = "DONE 2025")

\* the archived task is answered first although it has no timestamp at all
\* and the active task was created and started at StartTime
C25_Witness ==
    /\ response.kind = "project"
    /\ Len(response.tasks) = 2
    /\ response.tasks[1].section = "DONE 2025"
    /\ response.tasks[1].task.in_progress = None
    /\ response.tasks[1].task.created = None
    /\ response.tasks[2].section = "IN PROGRESS TODAY"
    /\ response.tasks[2].task.in_progress = StartTime
    /\ response.tasks[2].task.created = StartTime

\* the ladder of age tiers as claimed, for the sections drawn: <<rung, rank
\* within the rung>>.  RESEARCH DONE is put with the recent done section.
Rung(section) ==
    IF section = "DONE 2025" THEN <<0, 2025>>
    ELSE IF section = "DONE Q1 2026" THEN <<1, 20261>>
    ELSE IF section = "DONE Q2 2026" THEN <<1, 20262>>
    ELSE IF section = "COMPLETED PROJECTS" THEN <<2, 0>>
    ELSE IF section \in {"DONE THIS WEEK", "RESEARCH DONE"} THEN <<3, 0>>
    ELSE IF section \in {"IN PROGRESS TODAY", "BLOCKED"} THEN <<4, 0>>
    ELSE IF section = "TODO THIS WEEK" THEN <<5, 0>>
    ELSE IF section = "TODO NEXT WEEK" THEN <<6, 0>>
    ELSE IF section = "TODO FOLLOWING WEEK" THEN <<7, 0>>
    ELSE <<8, 0>>

UnorderedAnswer ==
    /\ response.kind = "project"
    /\ \A i \in 1..Len(response.tasks) : answered_order(response.tasks)[i] = None

\* C26 as claimed: in an answer without any order_index no task is listed
\* after a task of a higher rung of the ladder; BLOCKED shares the rung of
\* the active section, so a BLOCKED task is never listed after a TODO THIS
\* WEEK task.
C26_TierLadder ==
    UnorderedAnswer =>
        \A i \in 1..Len(response.tasks), j \in 1..Len(response.tasks) :
            i < j => ~tuple_less(Rung(response.tasks[j].section),
                                 Rung(response.tasks[i].section))

\* the ladder as the code has it: the same, for every pair of tasks neither
\* of which is in BLOCKED
TierLadderWithoutBlocked ==
    UnorderedAnswer =>
        \A i \in 1..Len(response.tasks), j \in 1..Len(response.tasks) :
            (/\ i < j
             /\ response.tasks[i].section \notin BLOCKED_SECTIONS
             /\ response.tasks[j].section \notin BLOCKED_SECTIONS) =>
                ~tuple_less(Rung(response.tasks[j].section),
                            Rung(response.tasks[i].section))

\* the projects stored before the latest one was added
EarlierProjects(section) ==
    {t \in {project_tasks(TASKS_FILE, section)[i] :
                i \in 1..Len(project_tasks(TASKS_FILE, section))} : t.id # nextId}

\* how many earlier active projects hold the color
ActiveHolders(c) ==
    Cardinality({t \in EarlierProjects("PROJECTS") : t.color_index = c})

CompletedHolders(c) ==
    Cardinality({t \in EarlierProjects("COMPLETED PROJECTS") : t.color_index = c})

Lowest(S) == CHOOSE i \in S : \A j \in S : i <= j

NotDoneNames ==
    {"RESEARCH DONE", "UNDONE Q1 2026", "Done Q1 2026", ""}
        \cup IN_PROGRESS_SECTIONS \cup BLOCKED_SECTIONS \cup CLEARS_IN_PROGRESS_SECTIONS

\* C28: a section name is done-role exactly when it is DONE THIS WEEK or
\* begins with "DONE Q" or "DONE 20" in that case; the quarter name of any
\* day is done-role; RESEARCH DONE, UNDONE Q1 2026, Done Q1 2026, the empty
\* name and the active, blocked, to-do and backlog names are not.
C28_DoneSections ==
    response.kind = "is_done_section" =>
        LET name == response.tasks[1].name
            done == response.tasks[1].done
        IN /\ done <=> \/ name = "DONE THIS WEEK"
                       \/ Len(name) >= 6 /\ SubSeq(name, 1, 6) = "DONE Q"
                       \/ Len(name) >= 7 /\ SubSeq(name, 1, 7) = "DONE 20"
           /\ name = get_current_quarter => done
           /\ name \in NotDoneNames => ~done

\* on a day of the second quarter of 2026 the name of the quarter was
\* classified, and it is done-role
C28_Witness ==
    /\ response.kind = "is_done_section"
    /\ response.tasks[1].name = get_current_quarter
    /\ response.tasks[1].name = "DONE Q2 2026"
    /\ response.tasks[1].done

\* the one task of a board of SpecSpans, and the days of the queried week
Stored == find_task(TASKS_FILE, 1)
QueriedWeek ==
    CHOOSE w \in {get_timeline_week_boundaries(o) : o \in WeekOffsets} :
        isoformat(w.week_start) = response.week_start

DayOf(i) == Stored.history[i].ts \div TicksPerDay

\* the entries that start a span, and the span each one starts
Starters == {i \in 1..Len(Stored.history) : Stored.history[i].prefix \in {"ip", "bl"}}
SpanEnd(i) == IF i < Len(Stored.history) THEN DayOf(i + 1) ELSE Today
\* those whose span touches the queried week, and the k-th of them
InWeek ==
    {i \in Starters : SpanEnd(i) >= QueriedWeek.week_start
                        /\ DayOf(i) <= QueriedWeek.week_end}
Kth(k) == CHOOSE i \in InWeek : Cardinality({j \in InWeek : j <= i}) = k

\* a <= b for two written dates
DateLE(a, b) ==
    \/ a.year < b.year
    \/ a.year = b.year /\ a.month < b.month
    \/ a.year = b.year /\ a.month = b.month /\ a.day <= b.day

C30_SpansWithinWeek ==
    response.kind = "timeline" =>
        /\ \A t \in 1..Len(response.tasks) :
              /\ response.tasks[t].spans # <<>>
              /\ \A k \in 1..Len(response.tasks[t].spans) :
                    LET span == response.tasks[t].spans[k]
                    IN /\ DateLE(response.week_start, span.start)
                       /\ DateLE(span.start, response.week_end)
                       /\ DateLE(response.week_start, span.end)
                       /\ DateLE(span.end, response.week_end)
        /\ InWeek # {} =>
              /\ Len(response.tasks) = 1
              /\ Len(response.tasks[1].spans) = Cardinality(InWeek)
              /\ \A k \in 1..Cardinality(InWeek) :
                    LET span == response.tasks[1].spans[k]
                        from == DayOf(Kth(k))
                        to == SpanEnd(Kth(k))
                    IN /\ span.start = civil(IF from < QueriedWeek.week_start
                                             THEN QueriedWeek.week_start ELSE from)
                       /\ span.end = civil(IF to > QueriedWeek.week_end
                                           THEN QueriedWeek.week_end ELSE to)
        /\ (Stored.history # <<>> /\ \A i \in 1..Len(Stored.history) :
                                        DayOf(i) > QueriedWeek.week_end)
              => response.tasks = <<>>

\* a span from the Saturday before the queried week to the Sunday after it
\* is cut to the week; one from its Sunday to its Saturday is kept whole;
\* a span that ended on the Saturday before the week is not emitted
C30_Witness ==
    /\ response.kind = "timeline"
    /\ Len(Stored.history) = 4
    /\ DayOf(1) = QueriedWeek.week_start - 1 /\ DayOf(2) = QueriedWeek.week_start - 1
    /\ DayOf(3) = QueriedWeek.week_start /\ DayOf(4) = QueriedWeek.week_end
    /\ Starters = {1, 2, 3, 4}
    /\ SpanEnd(4) = QueriedWeek.week_end + 1
    /\ Len(response.tasks) = 1
    /\ Len(response.tasks[1].spans) = 3
    /\ response.tasks[1].spans[1].start = response.week_start
    /\ response.tasks[1].spans[1].end = response.week_start
    /\ response.tasks[1].spans[2].start = response.week_start
    /\ response.tasks[1].spans[2].end = response.week_end
    /\ response.tasks[1].spans[3].start = response.week_end
    /\ response.tasks[1].spans[3].end = response.week_end

\* a week that ends before every entry of a history lists no task
C30_WitnessEarlierWeek ==
    /\ response.kind = "timeline"
    /\ Stored.history # <<>>
    /\ \A i \in 1..Len(Stored.history) : DayOf(i) > QueriedWeek.week_end
    /\ response.tasks = <<>>

\* the board with the entries that cannot be read taken out of every history
WithoutMalformed ==
    [s \in DOMAIN TASKS_FILE |->
        [i \in 1..Len(TASKS_FILE[s]) |->
            [TASKS_FILE[s][i] EXCEPT
                !.history = SelectSeq(@, LAMBDA e : e.ts # None)]]]

StoredSection == CHOOSE s \in DOMAIN TASKS_FILE : TASKS_FILE[s] # <<>>

\* C32: a task in a research section is in no answer, whatever its
\* timestamps and history; neither is a task outside the active and blocked
\* sections without in_progress, blocked_at, completed_at and history.
C32_NeverListed ==
    response.kind = "timeline" =>
        /\ StoredSection \in {"PROBLEMS TO SOLVE", "THINGS TO RESEARCH",
                              "RESEARCH IN PROGRESS", "RESEARCH DONE"}
              => response.tasks = <<>>
        /\ ( /\ Stored.in_progress = None /\ Stored.blocked_at = None
             /\ Stored.completed_at = None /\ Stored.history = <<>>
             /\ StoredSection \notin {"IN PROGRESS TODAY", "BLOCKED"} )
              => response.tasks = <<>>

\* a research task with in_progress, an ip@ history and a span of the
\* queried week was left out of the answer
C32_Witness ==
    /\ response.kind = "timeline"
    /\ StoredSection = "RESEARCH IN PROGRESS"
    /\ Stored.in_progress = 0
    /\ Stored.history # <<>> /\ Stored.history[1].prefix = "ip"
    /\ response.week_start = civil(0 - 4)
    /\ response.tasks = <<>>

\* C33: for a task without history and with in_progress set, one span is
\* computed, in_progress, from the in_progress date to the completed_at
\* date if set, else the blocked_at date if set, else the in_progress date
\* itself in a done section, else today; the answer holds it cut to the week.
C33_SparseFallback ==
    ( /\ response.kind = "timeline" /\ Stored.history = <<>>
      /\ Stored.in_progress # None /\ StoredSection \notin RESEARCH_SECTIONS ) =>
        LET from == Stored.in_progress \div TicksPerDay
            to == IF Stored.completed_at # None THEN Stored.completed_at \div TicksPerDay
                  ELSE IF Stored.blocked_at # None THEN Stored.blocked_at \div TicksPerDay
                  ELSE IF StoredSection \in {"DONE THIS WEEK", "DONE Q1 2026"} THEN from
                  ELSE Today
            w == QueriedWeek
        IN IF to < w.week_start \/ from > w.week_end
           THEN response.tasks = <<>>
           ELSE /\ Len(response.tasks) = 1
                /\ response.tasks[1].spans =
                      <<[start |-> civil(IF from < w.week_start THEN w.week_start ELSE from),
                         end |-> civil(IF to > w.week_end THEN w.week_end ELSE to),
                         status |-> "in_progress"]>>

\* a task of a done section with in_progress alone: a bar on that day
C33_Witness ==
    /\ response.kind = "timeline"
    /\ Stored.history = <<>>
    /\ Stored.in_progress = 0 /\ Stored.completed_at = None /\ Stored.blocked_at = None
    /\ StoredSection = "DONE THIS WEEK"
    /\ Len(response.tasks) = 1
    /\ response.tasks[1].spans =
          <<[start |-> civil(0), end |-> civil(0), status |-> "in_progress"]>>

\* the fields of the claim other than assigned_project
SameFields(a, b) ==
    /\ a.id = b.id /\ a.text = b.text /\ a.completed = b.completed
    /\ a.created = b.created /\ a.updated = b.updated
    /\ a.in_progress = b.in_progress /\ a.completed_at = b.completed_at
    /\ a.blocked_at = b.blocked_at /\ a.history = b.history
    /\ a.order_index = b.order_index

\* C34 as claimed: after save_tasks and parse_tasks every task is in the
\* section and at the position it was saved in, with the id, text,
\* completed, created, updated, in_progress, completed_at, blocked_at,
\* history, assigned_project and order_index it was saved with.
C34_RoundTrip ==
    response.kind = "parsed" =>
        \A s \in DOMAIN response.saved :
            /\ Len(response.parsed[s]) = Len(response.saved[s])
            /\ \A i \in 1..Len(response.saved[s]) :
                  /\ SameFields(response.saved[s][i], response.parsed[s][i])
                  /\ response.parsed[s][i].assigned_project
                        = response.saved[s][i].assigned_project

\* what the code keeps: all of it except the assigned_project of a line
\* written with project:N
RoundTripExceptColoredProjects ==
    response.kind = "parsed" =>
        \A s \in DOMAIN response.saved :
            /\ Len(response.parsed[s]) = Len(response.saved[s])
            /\ \A i \in 1..Len(response.saved[s]) :
                  /\ SameFields(response.saved[s][i], response.parsed[s][i])
                  /\ response.parsed[s][i].assigned_project
                        = IF s \in PROJECT_SECTIONS
                             /\ response.saved[s][i].color_index # None
                          THEN None
                          ELSE response.saved[s][i].assigned_project

\* the priority stored on each project, as a later read returns it
StoredPriority(file) ==
    [id \in {1, 2, 3} |-> find_task(parse_lines(file), id).priority]

ChangesSection(id) ==
    /\ has_task(TASKS_FILE, id) /\ has_task(TASKS_FILE', id)
    /\ find_section(TASKS_FILE', id) # find_section(TASKS_FILE, id)

\* the pairs (source, target) of the new-week rollover
RolloverPairs ==
    { <<"DONE THIS WEEK", get_current_quarter>>,
      <<"TODO NEXT WEEK", "TODO THIS WEEK">>,
      <<"TODO FOLLOWING WEEK", "TODO NEXT WEEK">> }

\* C36 as claimed: whenever a request other than the undo changes the
\* section of a task, the task's timestamps and history afterwards are those
\* the engine's transition for (source, target) gives.
C36_EveryMoveTransitions ==
    [][\A id \in Ids :
        (ChangesSection(id) /\ ~undo_new_week) =>
            Lifecycle(find_task(TASKS_FILE', id)) =
                Lifecycle(handle_section_transition(find_task(TASKS_FILE, id),
                              find_section(TASKS_FILE, id),
                              find_section(TASKS_FILE', id)))]_vars

\* C36 amended: a task changes section only in a PUT, a reorder, a toggle of
\* a project, a new-week or its undo. The PUT and the cross-section reorder
\* apply the engine's transition for (source, target). The new-week
\* rollover moves a task along one of its three pairs and leaves its
\* timestamps and history exactly as they were. The toggle of a project
\* sets or clears completed_at and appends co or op, where the engine's
\* transition for the pair changes nothing.
C36_MovesTransitionExceptRollover ==
    [][\A id \in Ids :
        ChangesSection(id) =>
            LET source == find_section(TASKS_FILE, id)
                target == find_section(TASKS_FILE', id)
                old == find_task(TASKS_FILE, id)
                new == find_task(TASKS_FILE', id)
                put == update_task(id, NoText, target)
                reorder == \E index \in 0..(MaxTasks - 1) : reorder_tasks(id, target, index)
                toggle == toggle_complete(id)
            IN /\ put \/ reorder \/ toggle \/ new_week \/ undo_new_week
               /\ (put \/ reorder) =>
                    Lifecycle(new) = Lifecycle(handle_section_transition(old, source, target))
               /\ new_week =>
                    /\ <<source, target>> \in RolloverPairs
                    /\ Lifecycle(new) = Lifecycle(old)
               /\ toggle =>
                    /\ <<source, target>> \in
                            {<<"PROJECTS", "COMPLETED PROJECTS">>, <<"COMPLETED PROJECTS", "PROJECTS">>}
                    /\ handle_section_transition(old, source, target) = old
                    /\ new.completed_at = IF target = "COMPLETED PROJECTS" THEN now ELSE None
                    /\ new.history = Append(old.history,
                            Event(IF target = "COMPLETED PROJECTS" THEN "co" ELSE "op"))]_vars

\* a new-week has carried a completed task, with its co event and its
\* completed_at of an earlier tick, from DONE THIS WEEK into the quarter's
\* section, and a task without history from TODO NEXT WEEK into TODO THIS WEEK
C36_Witness ==
    /\ UNDO_FILE.exists
    /\ now > StartTime
    /\ \E id \in Ids :
          /\ has_task(UNDO_FILE.content, id) /\ has_task(TASKS_FILE, id)
          /\ find_section(UNDO_FILE.content, id) = "DONE THIS WEEK"
          /\ find_section(TASKS_FILE, id) = get_current_quarter
          /\ Kinds(find_task(TASKS_FILE, id)) = <<"co">>
          /\ find_task(TASKS_FILE, id).completed_at < now
          /\ find_task(TASKS_FILE, id) = find_task(UNDO_FILE.content, id)
    /\ \E id \in Ids :
          /\ has_task(UNDO_FILE.content, id) /\ has_task(TASKS_FILE, id)
          /\ find_section(UNDO_FILE.content, id) = "TODO NEXT WEEK"
          /\ find_section(TASKS_FILE, id) = "TODO THIS WEEK"
          /\ find_task(TASKS_FILE, id).history = <<>>

\* ----------------------------------------------- claims: terminal events
LastEvent == Stored.history[Len(Stored.history)]

\* every span answered ends on or before this day
EndsBy(day) ==
    \A t \in 1..Len(response.tasks) :
        \A k \in 1..Len(response.tasks[t].spans) :
            DateLE(response.tasks[t].spans[k].end, civil(day))

\* C37: for a task whose last history event is op@ or co@, no span answered
\* for any week covers a date after the date of that event, the spans of
\* the fallback on terminal history included.
C37_TerminalBounds ==
    (/\ response.kind = "timeline"
     /\ Stored.history # <<>>
     /\ LastEvent.prefix \in {"op", "co"}) =>
        EndsBy(DayOf(Len(Stored.history)))

\* the same for the answers computed without the fallback, and for the
\* fallback when the last event is co@ or no bl@ precedes the last op@
TerminalBoundsOutsideBlockedFallback ==
    (/\ response.kind = "timeline"
     /\ Stored.history # <<>>
     /\ LastEvent.prefix \in {"op", "co"}
     /\ \/ LastEvent.prefix = "co"
        \/ InWeek # {}
        \/ \A i \in 1..Len(Stored.history) : Stored.history[i].prefix # "bl") =>
        EndsBy(DayOf(Len(Stored.history)))

\* --------------------------------------------------- claims: span bounds
\* C38: for a history the lifecycle engine wrote, oldest entry first, and a
\* today on or after its last entry, every span answered for a week, past,
\* present or next, has week_start <= start <= end <= week_end.
C38_SpansOrdered ==
    response.kind = "timeline" =>
        \A t \in 1..Len(response.tasks) :
            \A k \in 1..Len(response.tasks[t].spans) :
                LET span == response.tasks[t].spans[k]
                IN /\ DateLE(response.week_start, span.start)
                   /\ DateLE(span.start, span.end)
                   /\ DateLE(span.end, response.week_end)

\* ip@, bl@, ip@ on three days of the week before today's: three spans, the
\* last one open until today and cut at the Saturday it started on
C38_Witness ==
    /\ response.kind = "timeline"
    /\ response.week_end = civil(Today - 1)
    /\ Kinds(Stored) = <<"ip", "bl", "ip">>
    /\ DayOf(1) < DayOf(2) /\ DayOf(2) < DayOf(3) /\ DayOf(3) = Today - 1
    /\ DateLE(response.week_start, civil(DayOf(1)))
    /\ Len(response.tasks) = 1
    /\ Len(response.tasks[1].spans) = 3
    /\ response.tasks[1].spans[1].end = response.tasks[1].spans[2].start
    /\ response.tasks[1].spans[3].start = response.week_end
    /\ response.tasks[1].spans[3].end = response.week_end

\* the week after today's answers no span of a history
C38_WitnessNextWeek ==
    /\ response.kind = "timeline"
    /\ response.week_start = civil(Today + 7)
    /\ Kinds(Stored) = <<"ip", "bl">>
    /\ response.tasks = <<>>

\* ------------------------------------------------------------ claims: undo
\* the step is a request that changed a task and was answered 200
Mutating ==
    /\ requests' # requests
    /\ \/ \E section \in RequestSections, text \in Texts : add_task(section, text)
       \/ \E task_id \in Ids, data \in UpdateInputs : update_task(task_id, data[1], data[2])
       \/ \E task_id \in Ids : delete_task(task_id)
       \/ \E task_id \in Ids : toggle_complete(task_id)
       \/ \E task_id \in Ids, section \in RequestSections, index \in 0..(MaxTasks - 1) :
               reorder_tasks(task_id, section, index)
       \/ \E task_id \in Ids, project_id \in Ids : assign_to_project(task_id, project_id)
       \/ \E task_id \in Ids : unassign_from_project(task_id)
       \/ \E task_id \in Ids, color_index \in ColorIndexes :
               set_project_color(task_id, color_index)
       \/ reassign_project_colors
       \/ \E project_id \in Ids, task_ids \in TaskIdLists :
               reorder_project_tasks(project_id, task_ids)

\* C39: a new-week makes the undo available and keeps the board as it was
\* before it; every request that changes a task and succeeds makes the undo
\* unavailable; the undo, served only while available, puts back exactly
\* the board kept by the most recent new-week and makes itself unavailable;
\* no other step (a read, a rejected request, the clock) changes either the
\* availability or the board kept.
C39_UndoAvailability ==
    [][/\ new_week => UNDO_FILE' = [exists |-> TRUE, content |-> TASKS_FILE]
       /\ UNDO_FILE'.exists => ~Mutating /\ ~undo_new_week
       /\ undo_new_week =>
            /\ UNDO_FILE.exists
            /\ TASKS_FILE' = UNDO_FILE.content
       /\ (UNDO_FILE' # UNDO_FILE /\ ~new_week) => Mutating \/ undo_new_week]_vars

\* the undo is available, no request having followed a new-week that rolled
\* a task into TODO THIS WEEK, and the board kept is the one before it
C39_Witness ==
    /\ UNDO_FILE.exists
    /\ TASKS_FILE["TODO THIS WEEK"] # <<>>
    /\ UNDO_FILE.content["TODO THIS WEEK"] = <<>>
    /\ UNDO_FILE.content["TODO NEXT WEEK"] = TASKS_FILE["TODO THIS WEEK"]

\* ----------------------------------------------------------- claims: reads
\* the step is one of the three reads
Reads ==
    \/ get_tasks
    \/ \E week_offset \in AnyWeekOffsets : get_timeline(week_offset)
    \/ \E project_id \in Ids : get_project_timeline(project_id)

\* C40: a read (get tasks, get timeline, get project timeline) leaves the
\* stored board, its tasks, their sections and all their fields, as it was.
C40_ReadsLeaveBoard ==
    [][Reads => TASKS_FILE' = TASKS_FILE]_vars
====
